---------------------------- MODULE Spec2Model ----------------------------
(***************************************************************************)
(* rvsim: a cycle-accurate RV32 simulator with two cores.                  *)
(*   - src/src/cpu.rs      five-stage in-order pipeline  (variable cpu)    *)
(*   - src/src/cpu/mod.rs  out-of-order core with reservation stations,    *)
(*                         a common data bus and a rename table (ooo)      *)
(*   - src/src/instruction.rs  the decoder both cores share                *)
(*                                                                         *)
(* Representation of u32.  TLC integers are 32-bit signed, so a u32 value  *)
(* v is carried by the integer congruent to v modulo 2^32 that lies in     *)
(* -2^31 .. 2^31-1 (v itself when v < 2^31, v - 2^32 otherwise).  Every    *)
(* operator below is written against that carrier: wrapping arithmetic is  *)
(* done on 16-bit halves, logical shifts and unsigned comparisons are      *)
(* spelled out, and a bit field is taken with floor division and modulus.  *)
(***************************************************************************)
EXTENDS Integers, Sequences, FiniteSets, TLC

VARIABLES
    program,    \* the loaded Program: [mem: Seq(word), entry: word], or NoProgram
    cpu,        \* in-order CpuState (src/src/cpu.rs)
    ret,        \* what the last in-order step() returned
    commits,    \* history: every non-nop instruction that left WB, with the number of
                \* the step() call that retired it
    ooo,        \* out-of-order CpuState (src/src/cpu/mod.rs)
    seqst,      \* the sequential execution of the loaded program
    oret,       \* what the last out-of-order step() returned
    extra,      \* number of step() calls made after the first one that did not return Running
    assembled   \* the source line Program::assembly was given and the word it produced

vars == <<program, cpu, ret, commits, ooo, oret, seqst, extra, assembled>>

-----------------------------------------------------------------------------
(* Sequencing: x is computed once and F continues with its value, as a      *)
(* statement's result is computed once before the next statement runs.      *)

Bind(x, F(_)) == CHOOSE r \in {F(v) : v \in {x}} : TRUE

-----------------------------------------------------------------------------
(* u32 arithmetic on the signed carrier                                     *)

Hi(x) == x \div 65536
Lo(x) == x % 65536

\* the word whose upper half is hi (mod 2^16) and whose lower half is lo
ToWord(hi, lo) == (((hi + 32768) % 65536) - 32768) * 65536 + lo

wrapping_add(a, b) ==
    LET lo == Lo(a) + Lo(b)
    IN  ToWord(Hi(a) + Hi(b) + (lo \div 65536), lo % 65536)

wrapping_sub(a, b) ==
    LET lo == Lo(a) - Lo(b)
    IN  ToWord(Hi(a) - Hi(b) + (lo \div 65536), lo % 65536)

\* bits [lo+n-1 : lo] of w as a natural number (n <= 30)
Field(w, lo, n) ==
    IF lo = 31 THEN (IF w < 0 THEN 1 ELSE 0)
    ELSE (w \div (2 ^ lo)) % (2 ^ n)

\* a < b as unsigned 32-bit numbers
ULess(a, b) ==
    IF (a < 0) = (b < 0) THEN a < b ELSE b < 0

\* the low k bits of a as a natural number (0 <= k <= 31)
LowBits(a, k) ==
    IF k = 31 THEN (IF a >= 0 THEN a ELSE (a + 1073741824) + 1073741824)
    ELSE a % (2 ^ k)

\* a << n, a >> n (logical) and a >> n (arithmetic) for 0 <= n <= 31
Shl(a, n) ==
    IF n = 0 THEN a
    ELSE IF n = 31 THEN (IF a % 2 = 1 THEN (-32768) * 65536 ELSE 0)
    ELSE Bind(LowBits(a, 32 - n), LAMBDA u :
           LET top  == u \div (2 ^ (31 - n))
               rest == u % (2 ^ (31 - n))
           IN  IF top = 0 THEN rest * (2 ^ n)
               ELSE (rest * (2 ^ n) - 1073741824) - 1073741824)
Sra(a, n) ==
    IF n = 31 THEN (IF a < 0 THEN -1 ELSE 0) ELSE a \div (2 ^ n)
Srl(a, n) ==
    IF n = 0 THEN a
    ELSE Bind(Sra(a, n), LAMBDA x :
           IF x >= 0 THEN x ELSE (x + 2 ^ (31 - n)) + 2 ^ (31 - n))

\* bitwise operators on 16-bit naturals, then on words
RECURSIVE BitOp16(_, _, _, _)
BitOp16(op, x, y, n) ==
    IF n = 0 THEN 0
    ELSE LET bx == x % 2
             by == y % 2
             b  == CASE op = "and" -> bx * by
                    [] op = "or"  -> IF bx + by > 0 THEN 1 ELSE 0
                    [] op = "xor" -> (bx + by) % 2
         IN  b + 2 * BitOp16(op, x \div 2, y \div 2, n - 1)

BitOp(op, a, b) ==
    Bind(a, LAMBDA x : Bind(b, LAMBDA y :
        ToWord(BitOp16(op, Hi(x) % 65536, Hi(y) % 65536, 16),
               BitOp16(op, Lo(x), Lo(y), 16))))

\* 32x32 -> 64 bit unsigned product as eight 8-bit limbs, least significant first
Limb(a, i) == Field(a, 8 * i, 8)
Column(a, b, k) ==
    LET pairs == {i \in 0..3 : k - i \in 0..3}
        RECURSIVE Sum(_)
        Sum(S) == IF S = {} THEN 0
                  ELSE LET i == CHOOSE i \in S : TRUE
                       IN  Limb(a, i) * Limb(b, k - i) + Sum(S \ {i})
    IN  Sum(pairs)
RECURSIVE Carry(_, _, _)
Carry(a, b, k) == IF k = 0 THEN 0 ELSE (Column(a, b, k - 1) + Carry(a, b, k - 1)) \div 256
ProdLimb(a, b, k) == (Column(a, b, k) + Carry(a, b, k)) % 256
FromLimbs(l0, l1, l2, l3) == ToWord(l3 * 256 + l2, l1 * 256 + l0)
MulLow(a, b)  == FromLimbs(ProdLimb(a, b, 0), ProdLimb(a, b, 1), ProdLimb(a, b, 2), ProdLimb(a, b, 3))
MulHighU(a, b) == FromLimbs(ProdLimb(a, b, 4), ProdLimb(a, b, 5), ProdLimb(a, b, 6), ProdLimb(a, b, 7))
\* signed high half: correct the unsigned one for the operands' signs
MulHighS(a, b) ==
    wrapping_sub(wrapping_sub(MulHighU(a, b), IF a < 0 THEN b ELSE 0), IF b < 0 THEN a ELSE 0)

-----------------------------------------------------------------------------
(* Instruction (src/src/instruction.rs).  An Instruction is determined by   *)
(* its binary word; the fields from_binary stores are functions of it.      *)

opcode(binary) == binary % 128
funct3(binary) == Field(binary, 12, 3)

inst_type(binary) ==
    LET op == opcode(binary)
    IN  CASE op \in {51, 83}             -> "R"      \* 0x33 | 0x53
          [] op \in {3, 7, 19, 103, 115} -> "I"      \* 0x03 | 0x07 | 0x13 | 0x67 | 0x73
          [] op \in {35, 39}             -> "S"      \* 0x23 | 0x27
          [] op = 99                     -> "B"      \* 0x63
          [] op \in {55, 23}             -> "U"      \* 0x37 | 0x17
          [] op = 111                    -> "J"      \* 0x6f
          [] OTHER                       -> "Invalid"

\* from_binary(binary) is Ok exactly for these words
from_binary_ok(binary) == inst_type(binary) # "Invalid"

sign_extend(value, bits) ==
    LET v == value % (2 ^ bits)
    IN  IF v >= 2 ^ (bits - 1) THEN v - 2 ^ bits ELSE v

rs1(binary) == Field(binary, 15, 5)
rs2(binary) == Field(binary, 20, 5)
rd(binary)  == Field(binary, 7, 5)

imm(binary) ==
    CASE inst_type(binary) = "I" -> sign_extend(Field(binary, 20, 12), 12)
      [] inst_type(binary) = "S" ->
            sign_extend(Field(binary, 7, 5) + 32 * Field(binary, 25, 7), 12)
      [] inst_type(binary) = "B" ->
            sign_extend(2 * Field(binary, 8, 4) + 32 * Field(binary, 25, 6)
                        + 2048 * Field(binary, 7, 1) + 4096 * Field(binary, 31, 1), 13)
      [] inst_type(binary) = "U" -> binary - (binary % 4096)
      [] inst_type(binary) = "J" ->
            sign_extend(2 * Field(binary, 21, 10) + 2048 * Field(binary, 20, 1)
                        + 4096 * Field(binary, 12, 8) + 1048576 * Field(binary, 31, 1), 21)
      [] OTHER -> 0

nop == 51         \* Instruction::nop(): 0x00000033, add x0, x0, x0

\* (variant: nothing is treated as a jump)
is_jump_never(binary) == FALSE
is_jump(binary) ==
    \/ inst_type(binary) \in {"B", "J"}
    \/ inst_type(binary) = "I" /\ opcode(binary) = 103

alu_use_reg1(binary) == inst_type(binary) \in {"R", "I", "S"}
alu_use_reg2(binary) == inst_type(binary) = "R"

\* AluType discriminants
Add == 0
Sll == 1
Slt == 2
Sltu == 3
Xor == 4
SrlOp == 5
Or == 6
And == 7
Mul == 8
Mulh == 9
Mulhu == 11
Sub == 12
SraOp == 13
Bsel == 15
AluTypes == {Add, Sll, Slt, Sltu, Xor, SrlOp, Or, And, Mul, Mulh, Mulhu, Sub, SraOp, Bsel}

\* the u32 code alu_op() hands to AluType::from; a code outside AluTypes panics
alu_code(binary) ==
    CASE inst_type(binary) = "R" ->
            LET f3  == funct3(binary)
                c30 == Field(binary, 30, 1) * 12
                c25 == Field(binary, 25, 1) * 8
            IN  BitOp16("or", BitOp16("or", f3, c30, 4), c25, 4)
      [] inst_type(binary) = "I" /\ opcode(binary) = 3 -> Add
      [] inst_type(binary) = "I" /\ opcode(binary) # 3 ->
            LET code == funct3(binary)
            IN  IF code = 5 THEN BitOp16("or", code, Field(binary, 30, 1) * 8, 4) ELSE code
      [] inst_type(binary) = "U" -> Field(binary, 5, 1) * 15
      [] OTHER -> 0

alu_op_panics(binary) == alu_code(binary) \notin AluTypes
alu_op(binary) == alu_code(binary)

\* (variant: the word 0x33 is given no write-back source)
write_back_nop_none(binary) ==
    CASE binary = 51 -> "None"
      [] inst_type(binary) = "I" ->
            IF opcode(binary) = 3 THEN "Mem"
            ELSE IF opcode(binary) = 103 THEN "Pc"
            ELSE "Alu"
      [] inst_type(binary) \in {"R", "U"} -> "Alu"
      [] inst_type(binary) = "J" -> "Pc"
      [] OTHER -> "None"
\* Instruction::write_back
write_back(binary) ==
    CASE inst_type(binary) = "I" ->
            IF opcode(binary) = 3 THEN "Mem"
            ELSE IF opcode(binary) = 103 THEN "Pc"
            ELSE "Alu"
      [] inst_type(binary) \in {"R", "U"} -> "Alu"
      [] inst_type(binary) = "J" -> "Pc"
      [] OTHER -> "None"

branch(binary, a, b) ==
    CASE inst_type(binary) = "B" ->
            LET f3 == funct3(binary)
            IN  CASE f3 = 0 -> a = b
                  [] f3 = 1 -> a # b
                  [] f3 = 4 -> a < b
                  [] f3 = 5 -> a >= b
                  [] f3 = 6 -> ULess(a, b)
                  [] f3 = 7 -> ~ULess(a, b)
                  [] OTHER -> FALSE
      [] inst_type(binary) = "J" -> TRUE
      [] inst_type(binary) = "I" /\ opcode(binary) = 103 -> TRUE
      [] OTHER -> FALSE

mem_op(binary) ==
    CASE inst_type(binary) = "I" -> IF opcode(binary) = 3 THEN "Load" ELSE "None"
      [] inst_type(binary) = "S" -> "Store"
      [] OTHER -> "None"

\* (variant: the rd # 0 test left out)
reg_write_any_rd(binary) == inst_type(binary) \in {"R", "I", "U", "J"}
reg_write(binary) == inst_type(binary) \in {"R", "I", "U", "J"} /\ rd(binary) # 0

is_load(binary)   == opcode(binary) = 3
is_nop(binary)    == binary = 51
is_ebreak(binary) == binary = 1048691
is_ecall(binary)  == binary = 115

is_float_point(binary) == opcode(binary) \in {7, 39, 83}

\* station(): "Panic" stands for the panic!("unknown float inst")
station(binary) ==
    CASE inst_type(binary) = "I" ->
            IF opcode(binary) = 3 \/ opcode(binary) = 7 THEN "LoadStore" ELSE "Integer"
      [] inst_type(binary) = "S" -> "LoadStore"
      [] inst_type(binary) = "R" ->
            IF opcode(binary) = 83
            THEN IF funct3(binary) = 0 \/ funct3(binary) = 4 THEN "FAdd"
                 ELSE IF funct3(binary) = 8 \/ funct3(binary) = 12 THEN "FMul"
                 ELSE "Panic"
            ELSE "Integer"
      [] inst_type(binary) \in {"U", "J"} -> "Integer"
      [] OTHER -> "None"

-----------------------------------------------------------------------------
(* ALU (src/src/cpu.rs:378, duplicated in src/src/cpu/station.rs:467).      *)
(* a << b, a >> b with b >= 32 overflow: a build with overflow checks       *)
(* panics, a build without them shifts by b mod 32.                         *)

alu_overflows(a, b, op) == op \in {Sll, SrlOp, SraOp} /\ (b < 0 \/ b >= 32)

alu(a, b, op) ==
    CASE op = Add   -> wrapping_add(a, b)
      [] op = Sub   -> wrapping_sub(a, b)
      [] op = And   -> BitOp("and", a, b)
      [] op = Or    -> BitOp("or", a, b)
      [] op = Xor   -> BitOp("xor", a, b)
      [] op = Sll   -> Shl(a, b % 32)
      [] op = SrlOp -> Srl(a, b % 32)
      [] op = SraOp -> Sra(a, b % 32)
      [] op = Slt   -> IF a < b THEN 1 ELSE 0
      [] op = Sltu  -> IF ULess(a, b) THEN 1 ELSE 0
      [] op = Mul   -> MulLow(a, b)
      [] op = Mulh  -> MulHighS(a, b)
      [] op = Mulhu -> MulHighU(a, b)
      [] op = Bsel  -> b

-----------------------------------------------------------------------------
(* Memory (src/src/cpu.rs:44, 302; src/src/cpu/mod.rs:38, 218).  The 8192   *)
(* words are kept as a function on the indices that were ever written;      *)
(* every other word is 0.  An index of 8192 or more is an out-of-bounds     *)
(* array access, which panics.                                              *)

MemWords == 8192

mem_index_ok(addr) == addr >= 0 /\ addr \div 4 < MemWords
mem_load(m, addr) == IF addr \div 4 \in DOMAIN m THEN m[addr \div 4] ELSE 0
mem_store(m, addr, data) ==
    [i \in DOMAIN m \cup {addr \div 4} |-> IF i = addr \div 4 THEN data ELSE m[i]]
load_mem(data) == [i \in 0..(Len(data) - 1) |-> data[i + 1]]

-----------------------------------------------------------------------------
(* In-order core (src/src/cpu.rs).  Every method is an operator from the    *)
(* CpuState before the call to the CpuState after it.  A panic (unwrap of a *)
(* decoding error, array index out of bounds, arithmetic overflow in a      *)
(* build with overflow checks) is recorded in the field fault and ends the  *)
(* process.                                                                 *)

TempStateDefault ==
    [pc |-> 0, npc |-> 0, ir |-> nop, imm_a |-> 0, imm_b |-> 0, imm_src |-> 0,
     cond |-> FALSE, alu_out |-> 0, mem_out |-> 0, write_out |-> 0]

RegisterDefault == [i \in 0..31 |-> IF i = 2 THEN 32764 ELSE 0]   \* regs[2] = 0x7ffc

CpuStateDefault ==
    [if_id |-> TempStateDefault, id_ex |-> TempStateDefault,
     ex_mem |-> TempStateDefault, mem_wb |-> TempStateDefault,
     regs |-> RegisterDefault, mem |-> <<>>, pc |-> 0, npc |-> 0,
     stall |-> FALSE, cycle |-> 0, data_hazard |-> 0, control_hazard |-> 0,
     exit |-> FALSE, fault |-> ""]

\* Register::set
reg_set(regs, index, value) == [regs EXCEPT ![index] = value]

\* (variant: the exit flag does not stop the fetch)
fetch_suppressed_no_exit(s) == is_jump(s.id_ex.ir)
\* the test of if_cycle under which a nop is injected instead of a fetch
fetch_suppressed(s) == is_jump(s.id_ex.ir) \/ s.exit

if_cycle(s0) ==
    Bind(IF s0.ex_mem.cond THEN [s0 EXCEPT !.npc = s0.ex_mem.alu_out] ELSE s0, LAMBDA s1 :
      IF fetch_suppressed(s1)
      THEN [s1 EXCEPT !.if_id.ir = nop]
      ELSE IF ~s1.stall /\ ~mem_index_ok(s1.npc)
      THEN [s1 EXCEPT !.fault = "index out of bounds"]
      ELSE IF ~s1.stall /\ ~from_binary_ok(mem_load(s1.mem, s1.npc))
      THEN [s1 EXCEPT !.fault = "unwrap: Invalid instruction"]
      ELSE
    Bind(IF ~s1.stall THEN [s1 EXCEPT !.if_id.ir = mem_load(s1.mem, s1.npc)] ELSE s1, LAMBDA s2 :
    Bind(IF is_ecall(s2.if_id.ir) THEN [s2 EXCEPT !.exit = TRUE] ELSE s2, LAMBDA s3 :
      IF ~s3.stall
      THEN [s3 EXCEPT !.if_id.npc = wrapping_add(s3.npc, 4),
                      !.if_id.pc  = s3.npc,
                      !.npc       = wrapping_add(s3.npc, 4)]
      ELSE s3)))

\* (variant: decode never stalls)
data_hazard_cond_never(s) == FALSE
\* the load-use test of id_cycle
data_hazard_cond(s) ==
    /\ is_load(s.id_ex.ir)
    /\ \/ rd(s.id_ex.ir) = rs1(s.if_id.ir)
       \/ rd(s.id_ex.ir) = rs2(s.if_id.ir)

id_cycle(s0) ==
    IF data_hazard_cond(s0)
    THEN [s0 EXCEPT !.stall = TRUE,
                    !.data_hazard = s0.data_hazard + 1,
                    !.id_ex.ir = nop,
                    !.id_ex.pc = s0.if_id.pc,
                    !.id_ex.npc = s0.if_id.npc,
                    !.id_ex.imm_a = 0,
                    !.id_ex.imm_b = 0,
                    !.id_ex.imm_src = 0]
    ELSE LET jump == is_jump(s0.if_id.ir)
         IN  [s0 EXCEPT !.stall = jump,
                        !.control_hazard = IF jump THEN s0.control_hazard + 1
                                           ELSE s0.control_hazard,
                        !.id_ex.pc = s0.if_id.pc,
                        !.id_ex.npc = s0.if_id.npc,
                        !.id_ex.ir = s0.if_id.ir,
                        !.id_ex.imm_a = s0.regs[rs1(s0.if_id.ir)],
                        !.id_ex.imm_b = s0.regs[rs2(s0.if_id.ir)],
                        !.id_ex.imm_src = imm(s0.if_id.ir)]

ex_cycle(s0, overflow_checks) ==
    LET ir == s0.id_ex.ir
        alu_in_a == IF alu_use_reg1(ir) THEN s0.id_ex.imm_a ELSE s0.id_ex.pc
        alu_in_b == IF alu_use_reg2(ir) THEN s0.id_ex.imm_b ELSE s0.id_ex.imm_src
    IN  IF alu_op_panics(ir)
        THEN [s0 EXCEPT !.fault = "Invalid alu type"]
        ELSE IF overflow_checks /\ alu_overflows(alu_in_a, alu_in_b, alu_op(ir))
        THEN [s0 EXCEPT !.fault = "shift with overflow"]
        ELSE [s0 EXCEPT !.ex_mem.pc = s0.id_ex.pc,
                        !.ex_mem.npc = s0.id_ex.npc,
                        !.ex_mem.ir = ir,
                        !.ex_mem.imm_a = s0.id_ex.imm_a,
                        !.ex_mem.imm_b = s0.id_ex.imm_b,
                        !.ex_mem.imm_src = s0.id_ex.imm_src,
                        !.ex_mem.alu_out = alu(alu_in_a, alu_in_b, alu_op(ir)),
                        !.ex_mem.cond = branch(ir, s0.id_ex.imm_a, s0.id_ex.imm_b)]

\* the forwarding tests of mem_cycle: EX/MEM result into the operands latched in ID/EX
\* (variant: no forwarding of the first operand from EX/MEM)
mem_forward_a_never(s) == FALSE
mem_forward_a(s) == rd(s.ex_mem.ir) = rs1(s.id_ex.ir) /\ reg_write(s.ex_mem.ir)
\* (variant: the second operand is forwarded whatever reg_write says)
mem_forward_b_any(s) == rd(s.ex_mem.ir) = rs2(s.id_ex.ir)
mem_forward_b(s) == rd(s.ex_mem.ir) = rs2(s.id_ex.ir) /\ reg_write(s.ex_mem.ir)

mem_cycle(s0) ==
    LET x  == s0.ex_mem
        op == mem_op(x.ir)
        mem_out == IF op = "Load" THEN mem_load(s0.mem, x.alu_out) ELSE 0
        write_out == CASE write_back(x.ir) = "Mem"  -> mem_out
                       [] write_back(x.ir) = "Alu"  -> x.alu_out
                       [] write_back(x.ir) = "Pc"   -> wrapping_add(x.pc, 4)
                       [] write_back(x.ir) = "None" -> 0
        fwd1 == mem_forward_a(s0)
        fwd2 == mem_forward_b(s0)
    IN  IF op # "None" /\ ~mem_index_ok(x.alu_out)
        THEN [s0 EXCEPT !.fault = "index out of bounds"]
        ELSE [s0 EXCEPT !.mem_wb = [pc |-> x.pc,
                                    npc |-> IF x.cond /\ is_jump(x.ir) THEN x.alu_out ELSE x.npc,
                                    ir |-> x.ir,
                                    imm_a |-> x.imm_a, imm_b |-> x.imm_b, imm_src |-> x.imm_src,
                                    cond |-> x.cond, alu_out |-> x.alu_out,
                                    mem_out |-> mem_out, write_out |-> write_out],
                        !.mem = IF op = "Store" THEN mem_store(s0.mem, x.alu_out, x.imm_b)
                                ELSE s0.mem,
                        !.id_ex.imm_a = IF fwd1 THEN write_out ELSE s0.id_ex.imm_a,
                        !.id_ex.imm_b = IF fwd2 THEN write_out ELSE s0.id_ex.imm_b]

\* RunState / Result values returned by step()
Running      == [kind |-> "Running", code |-> 0, msg |-> ""]
Exit(c)      == [kind |-> "Exit", code |-> c, msg |-> ""]
Break        == [kind |-> "Break", code |-> 0, msg |-> ""]
Err(m)       == [kind |-> "Err", code |-> 0, msg |-> m]
Panicked     == [kind |-> "Panic", code |-> 0, msg |-> ""]
NotCalled    == [kind |-> "NotCalled", code |-> 0, msg |-> ""]

\* (variant: an ecall exits whatever x10 holds)
wb_result_any_a0(ir, regs) ==
    IF is_ebreak(ir) THEN Break
    ELSE IF is_ecall(ir) THEN Exit(regs[11])
    ELSE Running
\* what wb_cycle returns for the instruction in MEM/WB and the registers after its write
wb_result(ir, regs) ==
    IF is_ebreak(ir) THEN Break
    ELSE IF is_ecall(ir)
         THEN IF regs[10] = 17 THEN Exit(regs[11]) ELSE Err("unknown ecall")
         ELSE Running

\* (variant: write-back does not forward to the first ALU operand)
wb_forward_a_off(w_ir, ex_ir) == FALSE
\* wb_cycle's data forwarding to the instruction in ID/EX, first operand
wb_forward_a(w_ir, ex_ir) == rd(w_ir) = rs1(ex_ir) /\ reg_write(w_ir)

\* (variant: write-back retires the instruction out of MEM/WB)
wb_cycle_retires(s0) ==
    LET w == s0.mem_wb
    IN
    Bind(IF reg_write(w.ir) THEN [s0 EXCEPT !.regs = reg_set(s0.regs, rd(w.ir), w.write_out)]
         ELSE s0, LAMBDA s1 :
    Bind(IF ~is_nop(w.ir) THEN [s1 EXCEPT !.pc = w.npc] ELSE s1, LAMBDA s2 :
      LET fwd1 == wb_forward_a(w.ir, s2.id_ex.ir)
          fwd2 == rd(w.ir) = rs2(s2.id_ex.ir) /\ reg_write(w.ir)
      IN
    Bind([s2 EXCEPT !.id_ex.imm_a = IF fwd1 THEN w.write_out ELSE s2.id_ex.imm_a,
                    !.id_ex.imm_b = IF fwd2 THEN w.write_out ELSE s2.id_ex.imm_b,
                    !.mem_wb.ir = nop], LAMBDA s3 :
      [st |-> s3, res |-> wb_result(w.ir, s3.regs)])))
\* wb_cycle returns the new state and the Result
wb_cycle(s0) ==
    LET w == s0.mem_wb
    IN
    Bind(IF reg_write(w.ir) THEN [s0 EXCEPT !.regs = reg_set(s0.regs, rd(w.ir), w.write_out)]
         ELSE s0, LAMBDA s1 :
    Bind(IF ~is_nop(w.ir) THEN [s1 EXCEPT !.pc = w.npc] ELSE s1, LAMBDA s2 :
      LET fwd1 == wb_forward_a(w.ir, s2.id_ex.ir)
          fwd2 == rd(w.ir) = rs2(s2.id_ex.ir) /\ reg_write(w.ir)
      IN
    Bind([s2 EXCEPT !.id_ex.imm_a = IF fwd1 THEN w.write_out ELSE s2.id_ex.imm_a,
                    !.id_ex.imm_b = IF fwd2 THEN w.write_out ELSE s2.id_ex.imm_b], LAMBDA s3 :
      [st |-> s3, res |-> wb_result(w.ir, s3.regs)])))

CycleLimit == 10000

\* (variant: the ceiling is hit one call early)
over_limit_early(c) == c >= CycleLimit
\* the test both cores make after cycle += 1
over_limit(c) == c > CycleLimit

\* step(): [st |-> state after the call, res |-> what it returned]
step(s0, overflow_checks) ==
    Bind(IF s0.cycle > 3 THEN wb_cycle(s0) ELSE [st |-> s0, res |-> Running], LAMBDA w :
      IF w.res.kind = "Err" THEN [st |-> w.st, res |-> w.res]
      ELSE
    Bind(IF s0.cycle > 2 THEN mem_cycle(w.st) ELSE w.st, LAMBDA s2 :
    Bind(IF s2.fault = "" /\ s0.cycle > 1 THEN ex_cycle(s2, overflow_checks) ELSE s2, LAMBDA s3 :
    Bind(IF s3.fault = "" /\ s0.cycle > 0 THEN id_cycle(s3) ELSE s3, LAMBDA s4 :
    Bind(IF s4.fault = "" THEN if_cycle(s4) ELSE s4, LAMBDA s5 :
      IF s5.fault # "" THEN [st |-> s5, res |-> Panicked]
      ELSE IF over_limit(s5.cycle + 1)
      THEN [st |-> [s5 EXCEPT !.cycle = s5.cycle + 1], res |-> Err("too many cycles")]
      ELSE [st |-> [s5 EXCEPT !.cycle = s5.cycle + 1], res |-> w.res])))))

\* load(program)
load(s0, prog) ==
    [s0 EXCEPT !.mem = load_mem(prog.mem), !.npc = prog.entry, !.pc = prog.entry]

-----------------------------------------------------------------------------
(* Common data bus (src/src/cpu/cdb.rs)                                     *)

CDB_BUFFER_SIZE == 8

CdbDataDefault == [station_id |-> 0, tag |-> 0, data |-> 0]
CdbDefault == [i \in 0..(CDB_BUFFER_SIZE - 1) |-> CdbDataDefault]

\* (variant: an entry is posted with the clock bit already set)
CdbData_new_visible(station_id, num, data) ==
    [station_id |-> station_id, tag |-> BitOp16("or", 192, num, 8), data |-> data]
\* CdbData::new: tag = (1 << 7) | num
CdbData_new(station_id, num, data) ==
    [station_id |-> station_id, tag |-> BitOp16("or", 128, num, 8), data |-> data]

CdbData_is_empty(d) == BitOp16("and", d.tag, 128, 8) = 0
CdbData_get_reg(d, num) == d.tag = BitOp16("or", 192, num, 8)
CdbData_get_station(d, station_id) ==
    d.station_id = station_id /\ BitOp16("and", d.tag, 192, 8) = 192

CdbData_clock(d) ==
    IF CdbData_is_empty(d) THEN d
    ELSE IF BitOp16("and", d.tag, 64, 8) = 0
         THEN [d EXCEPT !.tag = BitOp16("or", d.tag, 64, 8)]
         ELSE [d EXCEPT !.tag = 0]

\* Cdb::get_reg / get_station: [some |-> BOOLEAN, val |-> data of the first match]
First(S) == CHOOSE i \in S : \A j \in S : i <= j
Cdb_get_reg(cdb, num) ==
    LET hits == {i \in DOMAIN cdb : CdbData_get_reg(cdb[i], num)}
    IN  IF hits = {} THEN [some |-> FALSE, val |-> 0]
        ELSE [some |-> TRUE, val |-> cdb[First(hits)].data]
Cdb_get_station(cdb, station_id) ==
    LET hits == {i \in DOMAIN cdb : CdbData_get_station(cdb[i], station_id)}
    IN  IF hits = {} THEN [some |-> FALSE, val |-> 0]
        ELSE [some |-> TRUE, val |-> cdb[First(hits)].data]

\* Cdb::send panics when no entry is empty
Cdb_full(cdb) == \A i \in DOMAIN cdb : ~CdbData_is_empty(cdb[i])
Cdb_send(cdb, station_id, num, data) ==
    LET free == {i \in DOMAIN cdb : CdbData_is_empty(cdb[i])}
    IN  [cdb EXCEPT ![First(free)] = CdbData_new(station_id, num, data)]

Cdb_exec(cdb) == [i \in DOMAIN cdb |-> CdbData_clock(cdb[i])]

-----------------------------------------------------------------------------
(* Reservation stations (src/src/cpu/station.rs)                            *)

Value(v)    == [kind |-> "Value", v |-> v]
Station(id) == [kind |-> "Station", v |-> id]

ReserveStationDataDefault ==
    [tag |-> 0, source1 |-> Value(0), source2 |-> Value(0), dest_reg |-> 0]

\* ReserveStationData::new: tag = (alu_op << 2) | 0b1
ReserveStationData_new(op, source1, source2, dest_reg) ==
    [tag |-> BitOp16("or", (op * 4) % 256, 1, 8),
     source1 |-> source1, source2 |-> source2, dest_reg |-> dest_reg]

busy(d)      == BitOp16("and", d.tag, 1, 8) = 1
executing(d) == BitOp16("and", d.tag, 2, 8) = 2
RSD_execute(d) == [d EXCEPT !.tag = BitOp16("or", d.tag, 2, 8)]
RSD_clear(d)   == [d EXCEPT !.tag = BitOp16("and", d.tag, 252, 8)]

ReserveStationDefault(size) == [i \in 0..(size - 1) |-> ReserveStationDataDefault]

\* ReserveStation::try_send: [some, id, buffer]
ReserveStation_try_send(buffer, op, source1, source2, dest_reg) ==
    LET free == {i \in DOMAIN buffer : ~busy(buffer[i])}
    IN  IF free = {} THEN [some |-> FALSE, id |-> 0, buffer |-> buffer]
        ELSE [some |-> TRUE, id |-> First(free),
              buffer |-> [buffer EXCEPT ![First(free)] =
                             ReserveStationData_new(op, source1, source2, dest_reg)]]

\* variant: a waiting source never takes a value from the CDB
resolve_never(src, cdb) == src

\* one slot of exec_source: the source after looking at the CDB
resolve(src, cdb) ==
    IF src.kind = "Station" /\ Cdb_get_station(cdb, src.v).some
    THEN Value(Cdb_get_station(cdb, src.v).val)
    ELSE src

slot_candidate(d) == busy(d) /\ ~executing(d)
slot_ready(d, cdb) ==
    /\ slot_candidate(d)
    /\ resolve(d.source1, cdb).kind = "Value"
    /\ resolve(d.source2, cdb).kind = "Value"

\* ReserveStation::exec_source: the buffer afterwards
exec_source_buffer(buffer, cdb) ==
    [i \in DOMAIN buffer |->
        IF ~slot_candidate(buffer[i]) THEN buffer[i]
        ELSE LET d == [buffer[i] EXCEPT !.source1 = resolve(buffer[i].source1, cdb),
                                        !.source2 = resolve(buffer[i].source2, cdb)]
             IN  IF slot_ready(buffer[i], cdb) THEN RSD_execute(d) ELSE d]

\* ReserveStation::exec_source: the slots it returns, in index order
exec_source_ready(buffer, cdb) == {i \in DOMAIN buffer : slot_ready(buffer[i], cdb)}

ReserveStation_done(buffer) == \A i \in DOMAIN buffer : ~busy(buffer[i])

\* result arrays of the multi-cycle banks: (result, dest_reg, remain_cycle)
ResultDefault(size) == [i \in 0..(size - 1) |-> [result |-> 0, dest |-> 0, remain |-> 0]]
saturating_sub(x, y) == IF x >= y THEN x - y ELSE 0

\* fadd / fmul on f32 bit patterns.  Only the patterns of 0.0, 1.0, 2.0, 3.0,
\* 4.0 and 6.0 are interpreted; any other operand or result is reported as
\* the pattern of a quiet NaN (0x7fc00000).
F32Bits == <<0, 1065353216, 1073741824, 1077936128, 1082130432, 1086324736>>
F32Vals == <<0, 1, 2, 3, 4, 6>>
F32NaN  == 2143289344
f32_known(bits) == \E i \in DOMAIN F32Bits : F32Bits[i] = bits
f32_val(bits) == F32Vals[CHOOSE i \in DOMAIN F32Bits : F32Bits[i] = bits]
f32_bits(val) ==
    IF \E i \in DOMAIN F32Vals : F32Vals[i] = val
    THEN F32Bits[CHOOSE i \in DOMAIN F32Vals : F32Vals[i] = val]
    ELSE F32NaN
fadd(a, b, op) ==
    IF ~f32_known(a) \/ ~f32_known(b) THEN F32NaN
    ELSE IF op = 0 THEN f32_bits(f32_val(a) + f32_val(b))
    ELSE f32_bits(f32_val(a) - f32_val(b))
fmul(a, b, op) ==
    IF ~f32_known(a) \/ ~f32_known(b) THEN F32NaN
    ELSE IF op = 0 THEN f32_bits(f32_val(a) * f32_val(b))
    ELSE IF f32_val(b) # 0 /\ f32_val(a) % f32_val(b) = 0
         THEN f32_bits(f32_val(a) \div f32_val(b))
         ELSE F32NaN

\* utils::is_fp: registers 32..63 are the floating-point ones
is_fp(reg) == reg >= 32

-----------------------------------------------------------------------------
(* Out-of-order core (src/src/cpu/mod.rs) and its four station banks        *)

OooRegisterDefault == [i \in 0..63 |-> IF i = 2 THEN 32764 ELSE 0]
AppointFormDefault == [i \in 0..63 |-> 0]

OooStateDefault ==
    [ld_station      |-> [reserve |-> ReserveStationDefault(5), result |-> ResultDefault(5)],
     integer_station |-> [reserve |-> ReserveStationDefault(3)],
     fadd_station    |-> [reserve |-> ReserveStationDefault(2), result |-> ResultDefault(2)],
     fmul_station    |-> [reserve |-> ReserveStationDefault(2), result |-> ResultDefault(2)],
     form |-> AppointFormDefault, wait_insts |-> <<>>, cdb |-> CdbDefault,
     regs |-> OooRegisterDefault, mem |-> <<>>, pc |-> 0, cycle |-> 0,
     exit |-> FALSE, fault |-> ""]

\* variant: the Integer bank starts at 5, the last id of the LoadStore bank
bank_base_overlap(b) ==
    CASE b = "ld_station" -> 1
      [] b = "integer_station" -> 5
      [] b = "fadd_station" -> 9
      [] b = "fmul_station" -> 11

\* id offset of each bank: load-store 1-5, integer 6-8, fadd 9-10, fmul 11-12
bank_base(b) ==
    CASE b = "ld_station" -> 1
      [] b = "integer_station" -> 6
      [] b = "fadd_station" -> 9
      [] b = "fmul_station" -> 11

\* the first loop of LDStation / FaddStation / FmulStation::execute: count the
\* timers down, post the results whose timer reaches 1 and free their slots
RECURSIVE timer_pass(_, _, _)
timer_pass(s, b, i) ==
    IF s.fault # "" \/ i \notin DOMAIN s[b].result THEN s
    ELSE LET r      == s[b].result[i]
             remain == saturating_sub(r.remain, 1)
         IN
         Bind([s EXCEPT ![b].result[i].remain = remain], LAMBDA s1 :
           IF remain # 1 THEN timer_pass(s1, b, i + 1)
           ELSE IF Cdb_full(s1.cdb)
           THEN [s1 EXCEPT !.fault = "CDB buffer is full!"]
           ELSE
         Bind([s1 EXCEPT !.cdb = Cdb_send(s1.cdb, i + bank_base(b), r.dest, r.result),
                         ![b].reserve[i] = RSD_clear(s1[b].reserve[i])], LAMBDA s2 :
           timer_pass(s2, b, i + 1)))

\* variant: the bank also writes its second operand to the address it reads
ld_dispatch_writes(s, i, d) ==
    LET addr == wrapping_add(d.source1.v, d.source2.v)
    IN  IF d.tag \div 4 # 0 THEN [s EXCEPT !.fault = "not yet implemented"]
        ELSE IF ~mem_index_ok(addr) THEN [s EXCEPT !.fault = "index out of bounds"]
        ELSE [s EXCEPT !.ld_station.result[i] =
                           [result |-> mem_load(s.mem, addr), dest |-> d.dest_reg, remain |-> 2],
                       !.mem = mem_store(s.mem, addr, d.source2.v)]

\* what a multi-cycle bank does with one slot exec_source returned
ld_dispatch(s, i, d) ==
    LET addr == wrapping_add(d.source1.v, d.source2.v)
        op   == d.tag \div 4
    IN  IF op = 0
        THEN IF ~mem_index_ok(addr) THEN [s EXCEPT !.fault = "index out of bounds"]
             ELSE [s EXCEPT !.ld_station.result[i] =
                        [result |-> mem_load(s.mem, addr), dest |-> d.dest_reg, remain |-> 2]]
        ELSE IF op = 1 THEN [s EXCEPT !.fault = "not yet implemented"]
        ELSE [s EXCEPT !.fault = "unreachable"]

\* variant: the FP adder takes as long as a load
fadd_dispatch_two(s, i, d) ==
    LET op == d.tag \div 4
    IN  IF op \notin {0, 1} THEN [s EXCEPT !.fault = "unreachable"]
        ELSE [s EXCEPT !.fadd_station.result[i] =
                 [result |-> fadd(d.source1.v, d.source2.v, op), dest |-> d.dest_reg,
                  remain |-> 2]]

fadd_dispatch(s, i, d) ==
    LET op == d.tag \div 4
    IN  IF op \notin {0, 1} THEN [s EXCEPT !.fault = "unreachable"]
        ELSE [s EXCEPT !.fadd_station.result[i] =
                 [result |-> fadd(d.source1.v, d.source2.v, op), dest |-> d.dest_reg,
                  remain |-> 3]]

fmul_dispatch(s, i, d) ==
    LET op == d.tag \div 4
    IN  IF op \notin {0, 1} THEN [s EXCEPT !.fault = "unreachable"]
        ELSE [s EXCEPT !.fmul_station.result[i] =
                 [result |-> fmul(d.source1.v, d.source2.v, op), dest |-> d.dest_reg,
                  remain |-> (IF op = 0 THEN 10 ELSE 40) + 1]]

integer_dispatch(s, i, d, overflow_checks) ==
    LET op == d.tag \div 4
    IN  IF op \notin AluTypes THEN [s EXCEPT !.fault = "Invalid alu type"]
        ELSE IF overflow_checks /\ alu_overflows(d.source1.v, d.source2.v, op)
        THEN [s EXCEPT !.fault = "shift with overflow"]
        ELSE IF Cdb_full(s.cdb) THEN [s EXCEPT !.fault = "CDB buffer is full!"]
        ELSE [s EXCEPT !.cdb = Cdb_send(s.cdb, i + 6, d.dest_reg,
                                        alu(d.source1.v, d.source2.v, op)),
                       !.integer_station.reserve[i] =
                            RSD_clear(s.integer_station.reserve[i])]

dispatch(s, b, i, d, overflow_checks) ==
    CASE b = "ld_station" -> ld_dispatch(s, i, d)
      [] b = "integer_station" -> integer_dispatch(s, i, d, overflow_checks)
      [] b = "fadd_station" -> fadd_dispatch(s, i, d)
      [] b = "fmul_station" -> fmul_dispatch(s, i, d)

\* the loop over the slots exec_source returned, in index order
RECURSIVE dispatch_pass(_, _, _, _)
dispatch_pass(s, b, todo, overflow_checks) ==
    IF s.fault # "" \/ todo = {} THEN s
    ELSE LET i == First(todo)
         IN  Bind(dispatch(s, b, i, s[b].reserve[i], overflow_checks), LAMBDA s1 :
               dispatch_pass(s1, b, todo \ {i}, overflow_checks))

\* the second loop of execute: exec_source, then one dispatch per returned slot
source_pass(s, b, overflow_checks) ==
    IF s.fault # "" THEN s
    ELSE Bind(exec_source_ready(s[b].reserve, s.cdb), LAMBDA ready :
         Bind([s EXCEPT ![b].reserve = exec_source_buffer(s[b].reserve, s.cdb)], LAMBDA s1 :
           dispatch_pass(s1, b, ready, overflow_checks)))

LDStation_execute(s) ==
    Bind(timer_pass(s, "ld_station", 0), LAMBDA t : source_pass(t, "ld_station", FALSE))
IntegerStation_execute(s, overflow_checks) == source_pass(s, "integer_station", overflow_checks)
FaddStation_execute(s) ==
    Bind(timer_pass(s, "fadd_station", 0), LAMBDA t : source_pass(t, "fadd_station", FALSE))
FmulStation_execute(s) ==
    Bind(timer_pass(s, "fmul_station", 0), LAMBDA t : source_pass(t, "fmul_station", FALSE))

LDStation_done(s)      == /\ ReserveStation_done(s.ld_station.reserve)
                          /\ \A i \in DOMAIN s.ld_station.result : s.ld_station.result[i].remain = 0
IntegerStation_done(s) == ReserveStation_done(s.integer_station.reserve)
FaddStation_done(s)    == /\ ReserveStation_done(s.fadd_station.reserve)
                          /\ \A i \in DOMAIN s.fadd_station.result : s.fadd_station.result[i].remain = 0
FmulStation_done(s)    == /\ ReserveStation_done(s.fmul_station.reserve)
                          /\ \A i \in DOMAIN s.fmul_station.result : s.fmul_station.result[i].remain = 0

\* CpuState::execute
execute(s, overflow_checks) ==
    Bind(LDStation_execute(s), LAMBDA s1 :
    Bind(IntegerStation_execute(s1, overflow_checks), LAMBDA s2 :
    Bind(FaddStation_execute(s2), LAMBDA s3 :
    Bind(FmulStation_execute(s3), LAMBDA s4 :
      IF s4.fault # "" THEN s4 ELSE [s4 EXCEPT !.cdb = Cdb_exec(s4.cdb)]))))

\* CpuState::write_back: the loop over the 64 registers (the iterations are
\* independent: each reads the CDB and touches only its own register and entry)
wb_station_hit(s, i) == s.form[i] # 0 /\ Cdb_get_station(s.cdb, s.form[i]).some
wb_reg_hit(s, i) ==
    s.form[i] # 0 /\ ~Cdb_get_station(s.cdb, s.form[i]).some /\ Cdb_get_reg(s.cdb, i).some
ooo_write_back(s) ==
    [s EXCEPT !.regs = [i \in 0..63 |->
                          IF wb_station_hit(s, i) THEN Cdb_get_station(s.cdb, s.form[i]).val
                          ELSE IF wb_reg_hit(s, i) THEN Cdb_get_reg(s.cdb, i).val
                          ELSE s.regs[i]],
              !.form = [i \in 0..63 |-> IF wb_station_hit(s, i) THEN 0 ELSE s.form[i]]]

\* the assertion each bank's try_send makes before it looks for a slot
try_send_assert(b, source2, dest_reg) ==
    CASE b = "ld_station" -> source2.kind = "Value"
      [] b = "integer_station" -> ~is_fp(dest_reg)
      [] b = "fadd_station" -> is_fp(dest_reg)
      [] b = "fmul_station" -> is_fp(dest_reg)

\* variant: the operands are read from the register file whatever the rename
\* table says
try_send_inst_regs_only(s, b, inst, pc) ==
    LET r1 == rs1(inst)
        r2 == rs2(inst)
        source1 == IF ~alu_use_reg1(inst) THEN Value(pc)
                   ELSE Value(s.regs[r1])
        source2 == IF ~alu_use_reg2(inst) THEN Value(imm(inst))
                   ELSE Value(s.regs[r2])
    IN  IF alu_op_panics(inst)
        THEN [st |-> [s EXCEPT !.fault = "Invalid alu type"], some |-> FALSE, id |-> 0]
        ELSE IF ~try_send_assert(b, source2, rd(inst))
        THEN [st |-> [s EXCEPT !.fault = "assertion failed"], some |-> FALSE, id |-> 0]
        ELSE
        Bind(ReserveStation_try_send(s[b].reserve, alu_op(inst), source1, source2, rd(inst)),
             LAMBDA res :
          IF res.some
          THEN [st |-> [s EXCEPT ![b].reserve = res.buffer,
                                 !.form[rd(inst)] = res.id + bank_base(b)],
                some |-> TRUE, id |-> res.id + bank_base(b)]
          ELSE [st |-> s, some |-> FALSE, id |-> 0])

\* Station::try_send_inst on bank b: [st, some, id]
try_send_inst(s, b, inst, pc) ==
    LET r1 == rs1(inst)
        r2 == rs2(inst)
        source1 == IF ~alu_use_reg1(inst) THEN Value(pc)
                   ELSE IF s.form[r1] = 0 THEN Value(s.regs[r1]) ELSE Station(s.form[r1])
        source2 == IF ~alu_use_reg2(inst) THEN Value(imm(inst))
                   ELSE IF s.form[r2] = 0 THEN Value(s.regs[r2]) ELSE Station(s.form[r2])
    IN  IF alu_op_panics(inst)
        THEN [st |-> [s EXCEPT !.fault = "Invalid alu type"], some |-> FALSE, id |-> 0]
        ELSE IF ~try_send_assert(b, source2, rd(inst))
        THEN [st |-> [s EXCEPT !.fault = "assertion failed"], some |-> FALSE, id |-> 0]
        ELSE
        Bind(ReserveStation_try_send(s[b].reserve, alu_op(inst), source1, source2, rd(inst)),
             LAMBDA res :
          IF res.some
          THEN [st |-> [s EXCEPT ![b].reserve = res.buffer,
                                 !.form[rd(inst)] = res.id + bank_base(b)],
                some |-> TRUE, id |-> res.id + bank_base(b)]
          ELSE [st |-> s, some |-> FALSE, id |-> 0])

station_bank(inst) ==
    CASE station(inst) = "LoadStore" -> "ld_station"
      [] station(inst) = "Integer" -> "integer_station"
      [] station(inst) = "FAdd" -> "fadd_station"
      [] station(inst) = "FMul" -> "fmul_station"

\* the for loop of issue: n more pending instructions to try
RECURSIVE issue_loop(_, _)
issue_loop(s, n) ==
    IF s.fault # "" \/ n = 0 THEN s
    ELSE LET inst == Head(s.wait_insts)
         IN
         Bind([s EXCEPT !.wait_insts = Tail(s.wait_insts)], LAMBDA s1 :
         Bind(try_send_inst(s1, station_bank(inst), inst, s1.pc), LAMBDA t :
           IF t.st.fault # "" THEN t.st
           ELSE
         Bind(IF t.some THEN [t.st EXCEPT !.form[rd(inst)] = t.id]
              ELSE [t.st EXCEPT !.wait_insts = Append(t.st.wait_insts, inst)], LAMBDA s2 :
           issue_loop(s2, n - 1))))

\* CpuState::issue: [st, res]
issue(s) ==
    IF ~mem_index_ok(s.pc)
    THEN [st |-> [s EXCEPT !.fault = "index out of bounds"], res |-> Panicked]
    ELSE LET binary == mem_load(s.mem, s.pc)
         IN  IF ~from_binary_ok(binary)
             THEN [st |-> s, res |-> Err("Invalid instruction")]
             ELSE IF station(binary) = "Panic"
             THEN [st |-> [s EXCEPT !.fault = "unknown float inst"], res |-> Panicked]
             ELSE IF station(binary) = "None"
             THEN [st |-> [s EXCEPT !.exit = TRUE], res |-> Running]
             ELSE Bind([s EXCEPT !.wait_insts = Append(s.wait_insts, binary)], LAMBDA s1 :
                    [st |-> issue_loop(s1, Len(s1.wait_insts)), res |-> Running])

\* variant: the pending queue is not looked at
ooo_all_done_no_queue(s) ==
    /\ LDStation_done(s)
    /\ IntegerStation_done(s)
    /\ FaddStation_done(s)
    /\ FmulStation_done(s)

ooo_all_done(s) ==
    /\ LDStation_done(s)
    /\ IntegerStation_done(s)
    /\ FaddStation_done(s)
    /\ FmulStation_done(s)
    /\ s.wait_insts = <<>>

\* CpuState::step: [st, res]
ooo_step(s0, overflow_checks) ==
    Bind(ooo_write_back(s0), LAMBDA s1 :
    Bind(execute(s1, overflow_checks), LAMBDA s2 :
    Bind(IF s2.fault = "" /\ ~s2.exit THEN issue(s2) ELSE [st |-> s2, res |-> Running], LAMBDA i :
    Bind(IF s2.fault = "" /\ ~s2.exit /\ i.st.fault = "" /\ i.res.kind # "Err"
         THEN [i.st EXCEPT !.pc = wrapping_add(i.st.pc, 4)]
         ELSE i.st, LAMBDA s3 :
      IF s3.fault # "" THEN [st |-> s3, res |-> Panicked]
      ELSE IF i.res.kind = "Err" THEN [st |-> s3, res |-> i.res]
      ELSE IF over_limit(s3.cycle + 1)
      THEN [st |-> [s3 EXCEPT !.cycle = s3.cycle + 1], res |-> Err("too many cycles")]
      ELSE [st |-> [s3 EXCEPT !.cycle = s3.cycle + 1],
            res |-> IF s3.exit /\ ooo_all_done(s3) THEN Exit(s3.regs[11]) ELSE i.res]))))

\* CpuState::load
ooo_load(s0, prog) == [s0 EXCEPT !.mem = load_mem(prog.mem), !.pc = prog.entry]

-----------------------------------------------------------------------------
(* Assembler encodings (src/src/assembler.rs): how Program::assembly packs  *)
(* the operands of each syntactic form into a word.                         *)

OPCODE_MAP(op) ==
    CASE op = "add"   -> 51             \* 0x00000033
      [] op = "sub"   -> 1073741875     \* 0x40000033
      [] op = "addi"  -> 19             \* 0x00000013
      [] op = "lw"    -> 8195           \* 0x00002003
      [] op = "sw"    -> 8227           \* 0x00002023
      [] op = "beq"   -> 99             \* 0x00000063
      [] op = "bne"   -> 4195           \* 0x00001063
      [] op = "jal"   -> 111            \* 0x0000006f
      [] op = "jalr"  -> 103            \* 0x00000067
      [] op = "lui"   -> 55             \* 0x00000037
      [] op = "auipc" -> 23             \* 0x00000017
      [] op = "ecall" -> 115            \* 0x00000073
      [] op = "ebreak" -> 1048691       \* 0x00100073
      [] op = "srai"  -> 1073762323     \* 0x40005013

Or2(a, b) == BitOp("or", a, b)
And2(a, b) == BitOp("and", a, b)

\* add rd, rs1, rs2
asm_RdRs1Rs2(op, d, r1, r2) ==
    Or2(Or2(OPCODE_MAP(op), Shl(d, 7)), Or2(Shl(r1, 15), Shl(r2, 20)))
\* addi rd, rs1, imm
asm_RdRs1Imm(op, d, r1, i) ==
    Or2(Or2(OPCODE_MAP(op), Shl(d, 7)), Or2(Shl(r1, 15), Shl(i, 20)))
\* lw rd, imm(rs1) and sw rs2, imm(rs1)
asm_RgImmRs1(op, rg, i, r1) ==
    IF op \in {"sb", "sh", "sw"}
    THEN Or2(Or2(Or2(OPCODE_MAP(op), Shl(rg, 20)), Shl(r1, 15)),
             Or2(Shl(And2(i, 31), 7), Shl(And2(i, 4064), 20)))
    ELSE Or2(Or2(OPCODE_MAP(op), Shl(rg, 7)), Or2(Shl(r1, 15), Shl(i, 20)))
\* beq rs1, rs2, label: the word before and after the label fix-up with offset
asm_Rs1Rs2Label(op, r1, r2, offset) ==
    LET inst == Or2(OPCODE_MAP(op), Or2(Shl(r1, 15), Shl(r2, 20)))
    IN  Or2(inst,
            Or2(Or2(Shl(And2(offset, 4096), 19), Shl(And2(offset, 2016), 20)),
                Or2(Srl(And2(offset, 2048), 4), Shl(And2(offset, 30), 7))))
\* jal rd, label
asm_RdLabel(op, d, offset) ==
    LET inst == Or2(OPCODE_MAP(op), Shl(d, 7))
    IN  Or2(inst,
            Or2(Or2(Shl(And2(offset, 1048576), 11), Shl(And2(offset, 2046), 20)),
                Or2(Shl(And2(offset, 2048), 9), And2(offset, 1044480))))
\* auipc rd, imm
asm_RdImm(op, d, i) == Or2(Or2(OPCODE_MAP(op), Shl(d, 7)), Shl(i, 20))
\* ecall and ebreak
asm_OnlyOp(op) == OPCODE_MAP(op)

\* nothing assembled yet
NoLine == [form |-> "", op |-> "", rd |-> 0, rs1 |-> 0, rs2 |-> 0, imm |-> 0,
           addr |-> 0, label |-> 0, word |-> 0]

-----------------------------------------------------------------------------
(* Programs the cores are run on                                            *)

MaxBody   == 3      \* longest generated program body, in instructions
MaxCycles == 34     \* step() is called while the cycle counter is below this
MaxExtra  == 3      \* step() calls explored after the first terminal return

NoProgram == [mem |-> <<>>, entry |-> 0]

ExitSeq == <<asm_RdRs1Imm("addi", 10, 0, 17), asm_OnlyOp("ecall")>>

\* instructions the generated in-order programs are built from
Pool ==
    { asm_RdRs1Imm("addi", 1, 0, 1),          \* addi x1, x0, 1
      asm_RdRs1Imm("addi", 2, 1, -3),         \* addi x2, x1, -3
      asm_RdRs1Rs2("add", 1, 1, 2),           \* add  x1, x1, x2
      asm_RgImmRs1("lw", 1, 0, 0),            \* lw   x1, 0(x0)
      asm_RgImmRs1("lw", 2, 64, 1),           \* lw   x2, 64(x1)
      asm_RgImmRs1("sw", 1, 64, 0),           \* sw   x1, 64(x0)
      asm_Rs1Rs2Label("beq", 1, 2, 8),        \* beq  x1, x2, +8
      asm_RdLabel("jal", 1, 8),               \* jal  x1, +8
      asm_RdRs1Imm("addi", 0, 1, 5),          \* addi x0, x1, 5
      asm_RdRs1Imm("addi", 11, 1, 0),         \* addi x11, x1, 0
      asm_RdImm("lui", 2, 1) }                \* lui  x2, 1

RECURSIVE SeqsUpTo(_, _)
SeqsUpTo(S, n) ==
    IF n = 0 THEN {<<>>}
    ELSE LET shorter == SeqsUpTo(S, n - 1)
         IN  shorter \cup {Append(q, x) : q \in {r \in shorter : Len(r) = n - 1}, x \in S}

\* scenario programs of the specification
S1 == <<asm_RdRs1Imm("addi", 1, 0, 1), asm_RdRs1Imm("addi", 2, 0, 2),
        asm_RdRs1Rs2("add", 3, 1, 2)>> \o ExitSeq
S3 == <<asm_RdRs1Imm("addi", 5, 0, 5), asm_RdRs1Imm("addi", 1, 1, 1),
        asm_Rs1Rs2Label("bne", 1, 5, -4)>> \o ExitSeq
S4 == <<asm_RgImmRs1("lw", 1, 0, 0), asm_RdRs1Rs2("add", 2, 1, 1)>> \o ExitSeq
S6 == <<asm_RdLabel("jal", 1, 12)>> \o ExitSeq
        \o <<asm_RdRs1Imm("addi", 11, 0, 7), asm_RdRs1Imm("jalr", 0, 1, 0)>>
\* a call whose target is the return: k instructions, jal x1 to the last
\* word, the exit sequence, and jalr x0, 0(x1) as the last word
RetInst == asm_RdRs1Imm("jalr", 0, 1, 0)
SCallRet(k) ==
    [i \in 1..k |-> asm_RdRs1Imm("addi", 5, 5, 1)]
    \o <<asm_RdLabel("jal", 1, 16), asm_RdRs1Imm("addi", 11, 0, 5)>> \o ExitSeq
    \o <<RetInst>>
CallRetPrograms == {SCallRet(k) : k \in 0..2}
\* a load followed by an instruction that does not read the loaded register
S7 == <<asm_RgImmRs1("lw", 1, 0, 0), asm_RdRs1Imm("addi", 2, 0, 1)>> \o ExitSeq

\* code placed after the exit sequence: a loop that writes x1 and memory
S11 == ExitSeq \o <<asm_RdRs1Imm("addi", 1, 0, 1), asm_RgImmRs1("sw", 1, 64, 0),
                    asm_RdLabel("jal", 0, -8)>>

\* a breakpoint in the middle of a computation
SBreak == <<asm_RdRs1Imm("addi", 1, 0, 1), asm_OnlyOp("ebreak"),
            asm_RdRs1Imm("addi", 1, 1, 1)>> \o ExitSeq
\* the exit code is written by the instruction directly before the ecall
SExitCode == <<asm_RdRs1Imm("addi", 10, 0, 17), asm_RdRs1Imm("addi", 11, 0, 7),
               asm_OnlyOp("ecall")>>
\* ecall with x10 = 16, and ecall with x10 never written
SBadEcall == <<asm_RdRs1Imm("addi", 10, 0, 16), asm_OnlyOp("ecall")>>
SBareEcall == <<asm_RdRs1Imm("addi", 1, 0, 1), asm_OnlyOp("ecall")>>

\* programs without an exit: the fetch runs into the zero words after the last
\* instruction, or jumps to them
SRunOff == <<asm_RdRs1Imm("addi", 1, 0, 1)>>
SJumpOff == <<asm_RdLabel("jal", 0, 64)>> \o ExitSeq

\* an arithmetic shift of a negative value by an immediate
SSrai == <<asm_RdRs1Imm("addi", 1, 0, -8), asm_RdRs1Imm("srai", 2, 1, 1)>> \o ExitSeq

\* an ecall fetched behind a load whose destination is x0
SStallEcall == <<asm_RdRs1Imm("addi", 10, 0, 17), asm_RgImmRs1("lw", 0, 0, 0),
                 asm_OnlyOp("ecall")>>

Scenarios == {S1, S3, S4, S6, S7, S11, SBreak, SExitCode, SBadEcall, SBareEcall,
              SRunOff, SJumpOff, SSrai, SStallEcall}
                 \cup CallRetPrograms

\* instructions the generated out-of-order programs are built from
OooPool ==
    { asm_RdRs1Imm("addi", 1, 0, 1),          \* addi x1, x0, 1
      asm_RdRs1Imm("addi", 2, 1, 2),          \* addi x2, x1, 2
      asm_RdRs1Rs2("add", 3, 1, 2),           \* add  x3, x1, x2
      asm_RgImmRs1("lw", 1, 0, 0),            \* lw   x1, 0(x0)
      asm_RgImmRs1("sw", 1, 64, 0),           \* sw   x1, 64(x0)
      asm_RdRs1Imm("addi", 0, 0, 5) }         \* addi x0, x0, 5

\* a write of the exit-code register x11, alone and behind a load
SExitReg == {<<asm_RdRs1Imm("addi", 11, 0, 5)>>,
             <<asm_RgImmRs1("lw", 1, 0, 0), asm_RdRs1Imm("addi", 11, 0, 5)>>}

\* the out-of-order core stops fetching at a conditional branch word
BranchSeq == <<asm_Rs1Rs2Label("beq", 0, 0, 0)>>

\* a pointer chase x1 -> x2 -> ... -> x10 through loads and moves, then three
\* loads and six adds that all read x10
SChase ==
    <<asm_RgImmRs1("lw", 1, 0, 0),  asm_RgImmRs1("lw", 2, 0, 1),
      asm_RdRs1Rs2("add", 3, 2, 0), asm_RdRs1Rs2("add", 4, 3, 0),
      asm_RgImmRs1("lw", 5, 0, 4),  asm_RgImmRs1("lw", 6, 0, 5),
      asm_RgImmRs1("lw", 7, 0, 6),  asm_RgImmRs1("lw", 8, 0, 7),
      asm_RdRs1Rs2("add", 9, 8, 0), asm_RgImmRs1("lw", 10, 0, 9),
      asm_RgImmRs1("lw", 30, 0, 10), asm_RgImmRs1("lw", 30, 0, 10),
      asm_RgImmRs1("lw", 30, 0, 10),
      asm_RdRs1Rs2("add", 31, 10, 10), asm_RdRs1Rs2("add", 31, 10, 10),
      asm_RdRs1Rs2("add", 31, 10, 10), asm_RdRs1Rs2("add", 31, 10, 10),
      asm_RdRs1Rs2("add", 31, 10, 10), asm_RdRs1Rs2("add", 31, 10, 10)>> \o BranchSeq

\* an OP-FP word (opcode 0x53) as the RISC-V encoding lays it out; the
\* assembler has no mnemonic for it, the word is placed in memory as data
FpOp(funct7, rm, d, s1, s2) ==
    funct7 * 33554432 + s2 * 1048576 + s1 * 32768 + rm * 4096 + d * 128 + 83
FMulS(rm) == FpOp(8, rm, 3, 1, 2)     \* fmul.s f3, f1, f2
FDivS(rm) == FpOp(12, rm, 3, 1, 2)    \* fdiv.s f3, f1, f2
FpWords == {FMulS(0), FMulS(7), FDivS(0), FDivS(7)}
\* the operands are written, two fillers let the writes retire, then the FP word
FpPrograms ==
    {<<w>> \o BranchSeq : w \in FpWords}
    \cup {<<asm_RdRs1Imm("addi", 1, 0, 3), asm_RdRs1Imm("addi", 2, 0, 4),
            asm_RdRs1Imm("addi", 0, 0, 0), asm_RdRs1Imm("addi", 0, 0, 0), w>>
          \o BranchSeq : w \in FpWords}

\* the pointer chase makes x10 late; four adds read x10, so the fourth finds
\* the Integer bank full; the load fetched behind it goes to the LoadStore bank
SOrder ==
    SubSeq(SChase, 1, 10)
    \o <<asm_RdRs1Rs2("add", 11, 10, 10), asm_RdRs1Rs2("add", 12, 10, 10),
          asm_RdRs1Rs2("add", 13, 10, 10), asm_RdRs1Rs2("add", 14, 10, 10),
          asm_RgImmRs1("lw", 15, 0, 0)>> \o BranchSeq

\* a store whose offset has non-zero low bits: bits [11:7] of the word are 4
SStore == <<asm_RgImmRs1("sw", 1, 4, 0)>> \o BranchSeq

OooPrograms ==
    {[mem |-> body \o t, entry |-> 0] :
        body \in SeqsUpTo(OooPool, MaxBody) \ {<<>>}, t \in {ExitSeq, BranchSeq}}
    \cup {[mem |-> S1, entry |-> 0], [mem |-> SChase, entry |-> 0]}
    \cup {[mem |-> m, entry |-> 0] : m \in FpPrograms}
    \cup {[mem |-> SOrder, entry |-> 0]}
    \cup {[mem |-> body \o t, entry |-> 0] : body \in SExitReg, t \in {ExitSeq, BranchSeq}}
    \cup {[mem |-> SStore, entry |-> 0]}

Programs ==
    {[mem |-> body \o ExitSeq, entry |-> 0] : body \in SeqsUpTo(Pool, MaxBody) \ {<<>>}}
    \cup {[mem |-> m, entry |-> 0] : m \in Scenarios}

-----------------------------------------------------------------------------
(* Sequential execution: one instruction at a time, each completing before  *)
(* the next starts.  It is built from the decoder's operators and the ALU,  *)
(* and is what the pipelined cores are compared with.                       *)

SeqDefault == [regs |-> RegisterDefault, mem |-> <<>>, pc |-> 0, halted |-> FALSE]

seq_load(prog) ==
    [regs |-> RegisterDefault, mem |-> load_mem(prog.mem), pc |-> prog.entry, halted |-> FALSE]

seq_step(q) ==
    LET w   == mem_load(q.mem, q.pc)
        a   == q.regs[rs1(w)]
        b   == q.regs[rs2(w)]
        in1 == IF alu_use_reg1(w) THEN a ELSE q.pc
        in2 == IF alu_use_reg2(w) THEN b ELSE imm(w)
        out == alu(in1, in2, alu_op(w))
        val == CASE write_back(w) = "Mem"  -> mem_load(q.mem, out)
                 [] write_back(w) = "Alu"  -> out
                 [] write_back(w) = "Pc"   -> wrapping_add(q.pc, 4)
                 [] write_back(w) = "None" -> 0
    IN  IF q.halted \/ ~mem_index_ok(q.pc) THEN [q EXCEPT !.halted = TRUE]
        ELSE IF ~from_binary_ok(w) \/ alu_op_panics(w) \/ is_ecall(w)
        THEN [q EXCEPT !.halted = TRUE]
        ELSE IF is_ebreak(w) THEN [q EXCEPT !.pc = wrapping_add(q.pc, 4)]
        ELSE IF mem_op(w) # "None" /\ ~mem_index_ok(out) THEN [q EXCEPT !.halted = TRUE]
        ELSE [q EXCEPT !.regs = IF reg_write(w) THEN reg_set(q.regs, rd(w), val) ELSE q.regs,
                       !.mem  = IF mem_op(w) = "Store" THEN mem_store(q.mem, out, b) ELSE q.mem,
                       !.pc   = IF branch(w, a, b) THEN out ELSE wrapping_add(q.pc, 4)]

\* two memories hold the same words
same_mem(m1, m2) == \A i \in (DOMAIN m1) \cup (DOMAIN m2) : mem_load(m1, 4 * i) = mem_load(m2, 4 * i)

-----------------------------------------------------------------------------
(* The two specifications                                                   *)

Init ==
    /\ program = NoProgram
    /\ cpu = CpuStateDefault
    /\ ret = NotCalled
    /\ commits = <<>>
    /\ ooo = OooStateDefault
    /\ oret = NotCalled
    /\ seqst = SeqDefault
    /\ extra = 0
    /\ assembled = NoLine

\* the front end goes on calling step() after Running and, once resumed, after Break
Terminal(r) == r.kind \notin {"NotCalled", "Running", "Break"}

\* the in-order core retires an instruction in this call of step()
Commits(s) == s.cycle > 3 /\ ~is_nop(s.mem_wb.ir)

\* cpu.load(&program)
Load ==
    /\ program = NoProgram
    /\ \E p \in Programs :
           /\ program' = p
           /\ cpu' = load(cpu, p)
           /\ seqst' = seq_load(p)
    /\ UNCHANGED <<assembled, ret, commits, ooo, oret, extra>>

\* one call of the in-order step(); the sequential execution advances by the
\* instruction the call retires
Step(overflow_checks) ==
    /\ program # NoProgram
    /\ ret.kind # "Panic"
    /\ cpu.cycle < MaxCycles
    /\ extra < MaxExtra
    /\ \E r \in {step(cpu, overflow_checks)} :
           /\ cpu' = r.st
           /\ ret' = r.res
           /\ commits' = IF Commits(cpu)
                         THEN Append(commits, [pc |-> cpu.mem_wb.pc, ir |-> cpu.mem_wb.ir,
                                               cycle |-> cpu.cycle + 1,
                                               seqpc |-> seqst.pc,
                                               res |-> r.res.kind,
                                               agree |-> r.st.regs = seq_step(seqst).regs])
                         ELSE commits
           /\ seqst' = IF Commits(cpu) THEN seq_step(seqst) ELSE seqst
    /\ extra' = IF Terminal(ret) \/ extra > 0 THEN extra + 1 ELSE extra
    /\ UNCHANGED <<assembled, program, ooo, oret>>

Next == Load \/ (\E overflow_checks \in BOOLEAN : Step(overflow_checks))

Spec == Init /\ [][Next]_vars

\* the out-of-order core's load(&program)
OLoad ==
    /\ program = NoProgram
    /\ \E p \in OooPrograms :
           /\ program' = p
           /\ ooo' = ooo_load(ooo, p)
           /\ seqst' = seq_load(p)
    /\ UNCHANGED <<assembled, cpu, ret, commits, oret, extra>>

\* this call of the out-of-order step() fetched an instruction and queued it
Queues(s, r) == r.st.pc # s.pc /\ ~r.st.exit

\* one call of the out-of-order step(); the sequential execution advances by
\* the instruction the call fetches
OStep(overflow_checks) ==
    /\ program # NoProgram
    /\ oret.kind # "Panic"
    /\ ooo.cycle < MaxCycles
    /\ extra < MaxExtra
    /\ \E r \in {ooo_step(ooo, overflow_checks)} :
           /\ ooo' = r.st
           /\ oret' = r.res
           /\ seqst' = IF Queues(ooo, r) THEN seq_step(seqst) ELSE seqst
    /\ extra' = IF Terminal(oret) \/ extra > 0 THEN extra + 1 ELSE extra
    /\ UNCHANGED <<assembled, program, cpu, ret, commits>>

NextOoO == OLoad \/ (\E overflow_checks \in BOOLEAN : OStep(overflow_checks))

SpecOoO == Init /\ [][NextOoO]_vars

\* Runs up to the cycle ceiling: programs that loop for ever, and programs
\* whose front end keeps calling step() after Exit.  The retirement history is
\* not recorded in these runs.
MaxOver == 2        \* step() calls explored after the cycle counter has passed the ceiling

LoopSelf  == <<asm_RdLabel("jal", 0, 0)>>
LoopCount == <<asm_RdRs1Imm("addi", 1, 1, 1), asm_RdLabel("jal", 0, -4)>>
CeilingPrograms == {[mem |-> m, entry |-> 0] : m \in {LoopSelf, LoopCount, S1}}
OooCeilingPrograms ==
    {[mem |-> m, entry |-> 0] :
        m \in {<<asm_RdRs1Imm("addi", 1, 0, 1)>> \o BranchSeq,
               <<asm_RgImmRs1("lw", 1, 0, 0), asm_RdRs1Rs2("add", 3, 1, 1)>> \o BranchSeq,
               SOrder}}

CLoad ==
    /\ program = NoProgram
    /\ \E p \in CeilingPrograms :
           /\ program' = p
           /\ cpu' = load(cpu, p)
    /\ UNCHANGED <<assembled, ret, commits, ooo, oret, seqst, extra>>

CStep(overflow_checks) ==
    /\ program # NoProgram /\ cpu.mem # <<>>
    /\ ret.kind # "Panic"
    /\ cpu.cycle < CycleLimit + MaxOver
    /\ \E r \in {step(cpu, overflow_checks)} :
           /\ cpu' = r.st
           /\ ret' = r.res
    /\ UNCHANGED <<assembled, program, commits, ooo, oret, seqst, extra>>

COLoad ==
    /\ program = NoProgram
    /\ \E p \in OooCeilingPrograms :
           /\ program' = p
           /\ ooo' = ooo_load(ooo, p)
    /\ UNCHANGED <<assembled, cpu, ret, commits, oret, seqst, extra>>

COStep(overflow_checks) ==
    /\ program # NoProgram /\ ooo.mem # <<>>
    /\ oret.kind # "Panic"
    /\ ooo.cycle < CycleLimit + MaxOver
    /\ \E r \in {ooo_step(ooo, overflow_checks)} :
           /\ ooo' = r.st
           /\ oret' = r.res
    /\ UNCHANGED <<assembled, program, cpu, ret, commits, seqst, extra>>

NextCeiling ==
    \/ CLoad
    \/ \E overflow_checks \in BOOLEAN : CStep(overflow_checks)
    \/ COLoad
    \/ \E overflow_checks \in BOOLEAN : COStep(overflow_checks)

SpecCeiling == Init /\ [][NextCeiling]_vars

-----------------------------------------------------------------------------
(* The station banks on their own: Station::try_send puts an operation with  *)
(* value operands in a bank, CpuState::execute runs one execute phase.  The  *)
(* FP adder is reached here with a floating-point destination (register 32   *)
(* and up), which no decoded instruction has.  An operation is sent to a     *)
(* bank while none of its slots is in use.  extra counts the phases.         *)

MaxPhases == 5      \* execute phases explored

\* operations sent to the banks: lw from 4, 1 + 2, 1.0 + 2.0 and 1.0 - 2.0
BankOps ==
    {[b |-> "ld_station", op |-> 0, a |-> 4, c |-> 0, dest |-> 2],
     [b |-> "integer_station", op |-> Add, a |-> 1, c |-> 2, dest |-> 3],
     [b |-> "fadd_station", op |-> 0, a |-> F32Bits[2], c |-> F32Bits[3], dest |-> 35],
     [b |-> "fadd_station", op |-> 1, a |-> F32Bits[2], c |-> F32Bits[3], dest |-> 36]}

\* number of slots in use, over the four banks
BusySlots(s) ==
    Cardinality({<<b, i>> \in {"ld_station", "integer_station", "fadd_station", "fmul_station"}
                              \X (0..4) :
                    i \in DOMAIN s[b].reserve /\ busy(s[b].reserve[i])})

BankSend ==
    /\ program = NoProgram /\ ooo.fault = ""
    /\ \E o \in BankOps :
           /\ ReserveStation_done(ooo[o.b].reserve)
           /\ try_send_assert(o.b, Value(o.c), o.dest)
           /\ \E r \in {ReserveStation_try_send(ooo[o.b].reserve, o.op, Value(o.a), Value(o.c), o.dest)} :
                  /\ r.some
                  /\ ooo' = [ooo EXCEPT ![o.b].reserve = r.buffer]
    /\ UNCHANGED <<assembled, program, cpu, ret, commits, oret, seqst, extra>>

BankExecute ==
    /\ program = NoProgram /\ ooo.fault = ""
    /\ extra < MaxPhases
    /\ ooo' = execute(ooo, FALSE)
    /\ extra' = extra + 1
    /\ UNCHANGED <<assembled, program, cpu, ret, commits, oret, seqst>>

NextBanks == BankSend \/ BankExecute

SpecBanks == Init /\ [][NextBanks]_vars

-----------------------------------------------------------------------------
(* Assembling one source line: the operands are drawn from the ranges the    *)
(* encoding class can hold, the word is what Program::assembly pushes (after *)
(* the label fix-up for the two forms that take a label).                    *)

AsmRegs   == {0, 1, 10, 31}
Imm12     == -2048..2047                                  \* I- and S-type
UImms     == {0, 5, 1048575} \cup {2 ^ k : k \in 0..19}   \* U-type: 20 bits
BOffsets  == {2 * k : k \in -2048..2047}                  \* every even 13-bit offset
\* even 21-bit offsets: the two ends of the range and every sum or difference
\* of two of the bits the encoding scatters
JOffsets  ==
    {x \in {s * (2 ^ a) + t * (2 ^ b) : a, b \in 1..19, s, t \in {-1, 1}} :
        x \in -1048576..1048574}
    \cup {-1048576, 1048574}
\* addresses of the instruction that takes the label
LabelSites == {1048576, 1048580}

Line(form, op, d, r1, r2, i, addr, label, word) ==
    [form |-> form, op |-> op, rd |-> d, rs1 |-> r1, rs2 |-> r2, imm |-> i,
     addr |-> addr, label |-> label, word |-> word]

AsmRdRs1Rs2 ==
    /\ assembled = NoLine
    /\ \E op \in {"add", "sub"}, d, r1, r2 \in AsmRegs :
           assembled' = Line("RdRs1Rs2", op, d, r1, r2, 0, 0, 0, asm_RdRs1Rs2(op, d, r1, r2))
    /\ UNCHANGED <<program, cpu, ret, commits, ooo, oret, seqst, extra>>

AsmRdRs1Imm ==
    /\ assembled = NoLine
    /\ \E op \in {"addi", "jalr"}, d \in {31}, r1 \in {10}, i \in Imm12 :
           assembled' = Line("RdRs1Imm", op, d, r1, 0, i, 0, 0, asm_RdRs1Imm(op, d, r1, i))
    /\ UNCHANGED <<program, cpu, ret, commits, ooo, oret, seqst, extra>>

AsmRgImmRs1 ==
    /\ assembled = NoLine
    /\ \E op \in {"lw", "sw"}, rg \in {31}, r1 \in {10}, i \in Imm12 :
           assembled' = Line("RgImmRs1", op, rg, r1, rg, i, 0, 0, asm_RgImmRs1(op, rg, i, r1))
    /\ UNCHANGED <<program, cpu, ret, commits, ooo, oret, seqst, extra>>

\* the fix-up computes (label address - instruction address) as a u32
AsmRs1Rs2Label ==
    /\ assembled = NoLine
    /\ \E op \in {"bne"}, r1 \in {31}, r2 \in {10},
          addr \in LabelSites, off \in BOffsets :
           assembled' = Line("Rs1Rs2Label", op, 0, r1, r2, 0, addr, addr + off,
                             asm_Rs1Rs2Label(op, r1, r2, wrapping_sub(addr + off, addr)))
    /\ UNCHANGED <<program, cpu, ret, commits, ooo, oret, seqst, extra>>

AsmRdLabel ==
    /\ assembled = NoLine
    /\ \E d \in {1, 31}, addr \in LabelSites, off \in JOffsets :
           assembled' = Line("RdLabel", "jal", d, 0, 0, 0, addr, addr + off,
                             asm_RdLabel("jal", d, wrapping_sub(addr + off, addr)))
    /\ UNCHANGED <<program, cpu, ret, commits, ooo, oret, seqst, extra>>

AsmRdImm ==
    /\ assembled = NoLine
    /\ \E op \in {"lui", "auipc"}, d \in AsmRegs, i \in UImms :
           assembled' = Line("RdImm", op, d, 0, 0, i, 0, 0, asm_RdImm(op, d, i))
    /\ UNCHANGED <<program, cpu, ret, commits, ooo, oret, seqst, extra>>

NextAsm ==
    \/ AsmRdRs1Rs2 \/ AsmRdRs1Imm \/ AsmRgImmRs1
    \/ AsmRs1Rs2Label \/ AsmRdLabel \/ AsmRdImm

SpecAsm == Init /\ [][NextAsm]_vars

-----------------------------------------------------------------------------
(* Properties of the in-order core                                          *)

\* instruction ir reads integer register r as an operand; ecall and ebreak
\* (opcode 0x73) have no register operand, their rs1 field is 0
Reads(ir, r) ==
    /\ opcode(ir) # 115
    /\ \/ inst_type(ir) \in {"R", "I", "S", "B"} /\ rs1(ir) = r
       \/ inst_type(ir) \in {"R", "S", "B"} /\ rs2(ir) = r

\* a conditional branch, jal or jalr
IsBranchOrJump(ir) == inst_type(ir) \in {"B", "J"} \/ opcode(ir) = 103

\* commits i and i+1 are a load and the instruction after it that reads its register
LoadUsePair(i) ==
    /\ opcode(commits[i].ir) = 3
    /\ commits[i + 1].pc = commits[i].pc + 4
    /\ Reads(commits[i + 1].ir, rd(commits[i].ir))

NumLoadUsePairs == Cardinality({i \in 1..(Len(commits) - 1) : LoadUsePair(i)})
NumJumps == Cardinality({i \in 1..Len(commits) : IsBranchOrJump(commits[i].ir)})

\* the call of step() that is about to run decodes the dependent of a load in EX
DecodesLoadUse ==
    /\ cpu.cycle > 0
    /\ opcode(cpu.id_ex.ir) = 3
    /\ Reads(cpu.if_id.ir, rd(cpu.id_ex.ir))

\* the call of step() that is about to run decodes a branch or jump
DecodesJump ==
    /\ cpu.cycle > 0
    /\ IsBranchOrJump(cpu.if_id.ir)
    /\ ~(opcode(cpu.id_ex.ir) = 3 /\ rd(cpu.id_ex.ir) \in {rs1(cpu.if_id.ir), rs2(cpu.if_id.ir)})

\* the call of step() ran all its stages
Completed == cpu'.cycle = cpu.cycle + 1

\* C1: at the step() that returns Exit, the in-order core's registers and
\* memory are those of the sequential execution of the program, the exit code
\* is the sequential x11, and every instruction retired in sequential order
\* leaving the register file the sequential execution has after it.
C1_InOrderRefinesSequential ==
    ret.kind = "Exit" =>
        /\ seqst.halted
        /\ is_ecall(mem_load(seqst.mem, seqst.pc))
        /\ cpu.regs = seqst.regs
        /\ same_mem(cpu.mem, seqst.mem)
        /\ ret.code = seqst.regs[11]
        /\ \A i \in 1..Len(commits) : commits[i].pc = commits[i].seqpc /\ commits[i].agree

\* C1 witness: S1 has returned Exit(0) with x1 = 1, x2 = 2, x3 = 3
C1_Witness ==
    /\ program.mem = S1
    /\ ret = Exit(0)
    /\ cpu.regs[1] = 1 /\ cpu.regs[2] = 2 /\ cpu.regs[3] = 3

\* C1 witness of a run with a stall, a bubble and forwarding
C1_WitnessHazards ==
    /\ ret.kind = "Exit"
    /\ cpu.data_hazard > 0 /\ cpu.control_hazard > 0
    /\ cpu.regs[1] # 0

\* C5: x0 of the in-order core is 0 in every reachable state.
C5_InOrderX0Zero == cpu.regs[0] = 0

\* C5 witness: an instruction with rd = 0 and a non-zero result has retired
C5_Witness ==
    /\ cpu.regs[0] = 0
    /\ \E i \in 1..Len(commits) :
          /\ commits[i].ir = asm_RdRs1Imm("addi", 0, 1, 5)
          /\ Len(commits) > i

\* C7: a load directly followed by an instruction reading its destination
\* stalls decode for exactly one cycle: the call of step() that decodes the
\* pair adds 1 to data_hazard, puts a nop in ID/EX and holds IF/ID, the next
\* call does not stall again, the two retire two calls apart, the dependent
\* retires with the sequential result, and data_hazard counts at least every
\* such pair; S4 ends with data_hazard = 1 and its add retiring in call 7.
C7_Inv ==
    /\ \A i \in 1..(Len(commits) - 1) :
          LoadUsePair(i) => /\ commits[i + 1].cycle = commits[i].cycle + 2
                            /\ commits[i + 1].agree
    /\ cpu.data_hazard >= NumLoadUsePairs
    /\ (program.mem = S4 /\ ret.kind = "Exit") =>
          /\ cpu.data_hazard = 1
          /\ commits[2].ir = S4[2] /\ commits[2].cycle = 7
          /\ cpu.regs[2] = wrapping_add(S4[1], S4[1])
C7_Step ==
    (DecodesLoadUse /\ Completed) =>
        /\ cpu'.data_hazard = cpu.data_hazard + 1
        /\ cpu'.stall
        /\ cpu'.id_ex.ir = nop
        /\ cpu'.if_id = cpu.if_id
        /\ cpu'.npc = cpu.npc
        /\ ~(opcode(cpu'.id_ex.ir) = 3)
C7_LoadUseStall == []C7_Inv /\ [][C7_Step]_vars

\* C7 witness: S4 has exited after its one stall
C7_Witness ==
    /\ program.mem = S4 /\ ret.kind = "Exit"
    /\ cpu.data_hazard = 1 /\ Len(commits) = 4 /\ LoadUsePair(1)

\* C8: the call of step() that decodes a branch or jump adds 1 to
\* control_hazard and leaves a nop in IF/ID; control_hazard changes in no other
\* call; the instruction retired after a branch or jump retires two calls
\* after it; at Exit control_hazard is the number of branches and jumps
\* retired; S3 ends with x1 = 5 and control_hazard = 5.
C8_Inv ==
    /\ \A i \in 1..(Len(commits) - 1) :
          IsBranchOrJump(commits[i].ir) => commits[i + 1].cycle = commits[i].cycle + 2
    /\ ret.kind = "Exit" => cpu.control_hazard = NumJumps
    /\ (program.mem = S3 /\ ret.kind = "Exit") => (cpu.regs[1] = 5 /\ cpu.control_hazard = 5)
C8_Step ==
    /\ (DecodesJump /\ Completed) =>
          /\ cpu'.control_hazard = cpu.control_hazard + 1
          /\ cpu'.if_id.ir = nop
          /\ cpu'.id_ex.ir = cpu.if_id.ir
    /\ cpu'.control_hazard # cpu.control_hazard => DecodesJump
C8_OneBubblePerJump == []C8_Inv /\ [][C8_Step]_vars

\* C8 witness: S3 has exited after five iterations
C8_Witness ==
    /\ program.mem = S3 /\ ret.kind = "Exit"
    /\ cpu.regs[1] = 5 /\ cpu.control_hazard = 5

\* the retired instructions have no branch or jump and no instruction that
\* reads the destination of the load directly before it
HazardFree ==
    /\ NumJumps = 0
    /\ NumLoadUsePairs = 0
    /\ \A i \in 1..Len(commits) : commits[i].pc = 4 * (i - 1)

\* C9: when a hazard-free sequence has retired its last instruction, that was
\* in call number N + 4 of step(), N the number of retired instructions, and no
\* stall was counted.
C9_HazardFreeCycles ==
    (ret.kind = "Exit" /\ HazardFree) =>
        /\ commits[Len(commits)].cycle = Len(commits) + 4
        /\ cpu.data_hazard = 0

\* step() has returned Exit in this or an earlier call
Exited == \E i \in 1..Len(commits) : commits[i].res = "Exit"

\* C11: once step() of the in-order core has returned Exit, a further call
\* changes no register and no memory word: only nops follow the ecall through
\* the pipeline, also when the program has code after the ecall.
C11_NopsAfterExit ==
    [][Exited => (cpu'.regs = cpu.regs /\ same_mem(cpu'.mem, cpu.mem) /\ cpu'.pc = cpu.pc)]_vars

\* C11 witness: MaxExtra calls were made after the Exit of the program that has
\* code after its ecall
C11_Witness ==
    /\ Exited /\ extra = MaxExtra /\ ret.kind = "Running"
    /\ program.mem = S11

\* C12: a call of the in-order step() that returns (below the cycle ceiling)
\* returns Break exactly when an ebreak is in MEM/WB at the call, Exit(x11)
\* exactly when an ecall is in MEM/WB and x10 = 17, the error "unknown ecall"
\* exactly when an ecall is in MEM/WB and x10 # 17, and Running otherwise; at
\* an ecall x10 and x11 are those of the sequential execution of all earlier
\* instructions.
C12_Step ==
    (program # NoProgram /\ ret'.kind # "Panic" /\ cpu.cycle < CycleLimit) =>
        LET w    == cpu.mem_wb.ir
            inwb == cpu.cycle > 3
        IN  /\ ret'.kind \in {"Break", "Exit", "Err", "Running"}
            /\ ret'.kind = "Break" <=> (inwb /\ is_ebreak(w))
            /\ ret'.kind = "Exit"  <=> (inwb /\ is_ecall(w) /\ cpu.regs[10] = 17)
            /\ ret'.kind = "Err"   <=> (inwb /\ is_ecall(w) /\ cpu.regs[10] # 17)
            /\ ret'.kind = "Exit"  => ret' = Exit(seqst.regs[11])
            /\ ret'.kind = "Err"   => ret' = Err("unknown ecall")
            /\ (inwb /\ is_ecall(w)) =>
                  /\ seqst.pc = cpu.mem_wb.pc
                  /\ cpu.regs[10] = seqst.regs[10]
                  /\ cpu.regs[11] = seqst.regs[11]
C12_WriteBackOutcome == [][C12_Step]_vars

\* C12 witness: the breakpoint program returned Break, was resumed and exited
C12_Witness ==
    /\ program.mem = SBreak /\ ret = Exit(0) /\ cpu.regs[1] = 2
    /\ \E i \in 1..Len(commits) : commits[i].res = "Break" /\ is_ebreak(commits[i].ir)

\* C12 witnesses of the other outcomes
C12_WitnessExitCode == program.mem = SExitCode /\ ret = Exit(7)
C12_WitnessErr == program.mem = SBadEcall /\ ret = Err("unknown ecall") /\ cpu.regs[10] = 16
C12_WitnessBare == program.mem = SBareEcall /\ ret = Err("unknown ecall") /\ cpu.regs[10] = 0

\* C13: in both cores a call of step() that does not fail otherwise adds
\* exactly 1 to the cycle counter, and it returns the error "too many cycles"
\* exactly when the counter after the addition exceeds 10000, which is the
\* 10001st call of a run without failure.
C13_InOrderStep ==
    (program # NoProgram /\ cpu.mem # <<>>) =>
        LET failed == ret'.kind = "Panic" \/ ret' = Err("unknown ecall")
        IN  /\ ~failed => cpu'.cycle = cpu.cycle + 1
            /\ ret' = Err("too many cycles") <=> (~failed /\ cpu.cycle + 1 > 10000)
C13_OoOStep ==
    (program # NoProgram /\ ooo.mem # <<>>) =>
        LET failed == oret'.kind = "Panic" \/ oret' = Err("Invalid instruction")
        IN  /\ ~failed => ooo'.cycle = ooo.cycle + 1
            /\ oret' = Err("too many cycles") <=> (~failed /\ ooo.cycle + 1 > 10000)
C13_CycleCeiling == [][C13_InOrderStep /\ C13_OoOStep]_vars

\* C13 witness: the looping program's 10001st call returned the error, after
\* 10000 calls that returned Running
C13_Witness ==
    /\ program.mem = LoopCount
    /\ cpu.cycle = 10001 /\ ret = Err("too many cycles")
    /\ cpu.regs[1] > 1000

\* C13 witness for the out-of-order core
C13_WitnessOoO == ooo.cycle = 10001 /\ oret = Err("too many cycles") /\ ooo.exit

-----------------------------------------------------------------------------
(* Properties of the out-of-order core                                      *)

\* nothing is in flight: no station busy, nothing waiting, nothing on the bus
Drained(s) == ooo_all_done(s) /\ \A k \in DOMAIN s.cdb : CdbData_is_empty(s.cdb[k])

\* the loaded program ends with the ecall word
EndsInEcall == program # NoProgram /\ is_ecall(program.mem[Len(program.mem)])

\* a result for register r is on the bus for the write-back of the next call
Broadcast(s, r, v) ==
    \E k \in DOMAIN s.cdb : s.cdb[k].tag = 192 + r /\ s.cdb[k].data = v

\* C2: once the out-of-order core has stopped and nothing is in flight, every
\* integer register x1..x31 holds the value of the sequential execution.
C2_OoORefinesSequential ==
    (Terminal(oret) /\ oret.kind # "Panic" /\ Drained(ooo)) =>
        \A i \in 1..31 : ooo.regs[i] = seqst.regs[i]

\* C3: a call of step() changes a register only to a value that was broadcast
\* for that register in the previous call.
C3_WriteBackOnlyDestination ==
    [][\A i \in 0..63 : ooo'.regs[i] # ooo.regs[i] => Broadcast(ooo, i, ooo'.regs[i])]_vars

\* C4: on a program ending in ecall, when step() stops returning Running it
\* returns Exit.
C4_EcallProgramExits ==
    (EndsInEcall /\ Terminal(oret)) => oret.kind = "Exit"

\* C6: register 0 of the out-of-order core is 0 in every reachable state.
C6_OoOX0Zero == ooo.regs[0] = 0

\* C10: after step() has returned Exit(c), the next call returns Exit(c) and
\* leaves the 64 registers as they are.
C10_ExitIdempotent ==
    [][oret.kind = "Exit" => (oret' = oret /\ ooo'.regs = ooo.regs)]_vars

\* the decoder gives back what the assembled line was written with
RoundTrip(l) ==
    /\ from_binary_ok(l.word)
    /\ opcode(l.word) = opcode(OPCODE_MAP(l.op))
    /\ CASE l.form = "RdRs1Rs2" ->
               rd(l.word) = l.rd /\ rs1(l.word) = l.rs1 /\ rs2(l.word) = l.rs2
         [] l.form = "RdRs1Imm" ->
               rd(l.word) = l.rd /\ rs1(l.word) = l.rs1 /\ imm(l.word) = l.imm
         [] l.form = "RgImmRs1" ->
               /\ rs1(l.word) = l.rs1 /\ imm(l.word) = l.imm
               /\ IF l.op = "sw" THEN rs2(l.word) = l.rs2 ELSE rd(l.word) = l.rd
         [] l.form = "Rs1Rs2Label" ->
               rs1(l.word) = l.rs1 /\ rs2(l.word) = l.rs2 /\ imm(l.word) = l.label - l.addr
         [] l.form = "RdLabel" ->
               rd(l.word) = l.rd /\ imm(l.word) = l.label - l.addr
         [] l.form = "RdImm" ->
               \* the 20-bit immediate of the source is the upper 20 bits of the
               \* decoded one
               rd(l.word) = l.rd /\ imm(l.word) = Shl(l.imm, 12)

\* C20: for every encoding class the decoder extracts the fields the assembler
\* packed: the registers, for I-, S- and U-type the immediate of the source
\* line, and for B- and J-type (label address - instruction address).
C20_EncodeDecodeRoundTrip == assembled # NoLine => RoundTrip(assembled)

\* the 13 opcodes from_binary accepts
DocumentedOpcodes == {51, 83, 3, 7, 19, 103, 115, 35, 39, 99, 55, 23, 111}

\* C19: a word decodes exactly when its low 7 bits are one of the 13 opcodes,
\* and a call of step() that fetches a word that does not decode returns an
\* error to its caller: it never aborts in the unwrap() of the decoder's
\* result.
C19_DecodeFailureReturned ==
    /\ \A i \in DOMAIN cpu.mem :
           from_binary_ok(cpu.mem[i]) <=> (cpu.mem[i] % 128 \in DocumentedOpcodes)
    /\ cpu.fault # "unwrap: Invalid instruction"
    /\ ooo.fault # "unwrap: Invalid instruction"

\* the instruction words held by the four latches of the in-order core
LatchedWords == {cpu.if_id.ir, cpu.id_ex.ir, cpu.ex_mem.ir, cpu.mem_wb.ir}

\* C18 as the specification states it: the instruction nop() returns, wherever
\* the pipeline holds it, has is_nop, reg_write = false, mem_op = None and
\* writeback = None.
C18_NopWritebackNone ==
    \A ir \in LatchedWords :
        is_nop(ir) => (ir = nop /\ ~reg_write(ir) /\ mem_op(ir) = "None"
                       /\ write_back(ir) = "None")

\* C18 as the code has it: the instruction nop() returns has is_nop,
\* reg_write = false and mem_op = None, and its write-back source is the ALU
\* result (it is an R-type add); the write is suppressed by reg_write = false.
C18_NopWritebackAlu ==
    \A ir \in LatchedWords :
        is_nop(ir) => (ir = nop /\ ~reg_write(ir) /\ mem_op(ir) = "None"
                       /\ write_back(ir) = "Alu")

\* if_cycle has injected nop() behind a jump, and an earlier nop sits in
\* MEM/WB with the ALU result as its write_out
C18_Witness ==
    /\ cpu.cycle > 3
    /\ is_jump(cpu.id_ex.ir) /\ cpu.if_id.ir = nop
    /\ is_nop(cpu.mem_wb.ir) /\ cpu.mem_wb.write_out = cpu.mem_wb.alu_out

\* jal x1, <any target>
IsCall(ir) == opcode(ir) = 111 /\ rd(ir) = 1

\* the return has been decoded and the call has not yet written back
ReturnDecoded == cpu.cycle > 3 /\ cpu.id_ex.ir = RetInst /\ IsCall(cpu.mem_wb.ir)

\* C16 for one call of step(): while the call instruction is still in MEM/WB
\* the return in ID/EX computes the link address as its target and is taken;
\* when the return retires right after the call, x1 and the architectural PC
\* both hold the address that follows the call.
C16_Step ==
    /\ (ReturnDecoded /\ ret'.kind # "Panic") =>
           /\ cpu'.regs[1] = wrapping_add(cpu.mem_wb.pc, 4)
           /\ cpu'.ex_mem.ir = RetInst
           /\ cpu'.ex_mem.alu_out = wrapping_add(cpu.mem_wb.pc, 4)
           /\ cpu'.ex_mem.cond
    /\ (/\ Commits(cpu) /\ cpu.mem_wb.ir = RetInst /\ ret'.kind # "Panic"
        /\ commits # <<>> /\ IsCall(commits[Len(commits)].ir)) =>
           /\ cpu'.regs[1] = wrapping_add(commits[Len(commits)].pc, 4)
           /\ cpu'.pc = wrapping_add(commits[Len(commits)].pc, 4)
           /\ seqst'.pc = cpu'.pc

\* C16: jal x1,target with jalr x0,0(x1) at the target: the jalr takes the
\* link value from the forwarding path of the write-back stage, x1 holds the
\* address after the jal, and the architectural PC becomes that address.
C16_CallReturn == [][C16_Step]_vars

\* the return was decoded with the stale x1 and has now retired: the program
\* has returned to the instruction after a call that is not at address 0
C16_Witness ==
    /\ program.mem = SCallRet(2)
    /\ Len(commits) >= 4
    /\ IsCall(commits[3].ir) /\ commits[4].ir = RetInst
    /\ cpu.regs[1] = 12 /\ cpu.regs[5] = 2
    /\ ret = Exit(5)

\* the moment the claim turns on: the return sits in ID/EX with the value x1
\* had before the call
C16_WitnessStale ==
    ReturnDecoded /\ cpu.id_ex.imm_a # wrapping_add(cpu.mem_wb.pc, 4) /\ cpu.regs[1] = 0

\* the call of step() that is about to issue an fmul.s or fdiv.s whose two
\* source registers are not renamed
IssuesFp ==
    /\ program # NoProgram /\ ooo.fault = "" /\ ~ooo.exit
    /\ mem_load(ooo.mem, ooo.pc) \in FpWords
    /\ ooo.form[rs1(mem_load(ooo.mem, ooo.pc))] = 0
    /\ ooo.form[rs2(mem_load(ooo.mem, ooo.pc))] = 0

\* C17: an fmul.s or fdiv.s whose operands are available is routed to the
\* FMul unit: the call of step() that issues it does not panic and renames
\* its destination to one of the two FMul slots (station ids 11 and 12).
C17_FmulRouted ==
    [][(IssuesFp /\ ooo' # ooo) =>
          /\ ooo'.fault = ""
          /\ ooo'.form[rd(mem_load(ooo.mem, ooo.pc))] \in 11..12]_vars

\* q is what is left of p after some of its first elements are removed
IsSuffix(q, p) ==
    /\ Len(q) <= Len(p)
    /\ \A i \in 1..Len(q) : q[i] = p[Len(p) - Len(q) + i]

\* this call of step() runs the loop of issue: the exit flag is clear, the
\* word at PC decodes to an instruction of some bank, and nothing panics
IssueLoopRuns ==
    /\ program # NoProgram /\ ooo.fault = "" /\ ~ooo.exit
    /\ ooo'.cycle = ooo.cycle + 1 /\ ooo'.fault = ""
    /\ from_binary_ok(mem_load(ooo.mem, ooo.pc))
    /\ station(mem_load(ooo.mem, ooo.pc)) \notin {"None", "Panic"}

\* C21: issue admits the pending instructions in the order they were fetched:
\* the instructions admitted in one call of step() are the first ones of the
\* queue, so the queue left behind is a suffix of the queue the loop started
\* with (the old queue followed by the fetched word).
C21_IssueInOrder ==
    [][IssueLoopRuns =>
          IsSuffix(ooo'.wait_insts,
                   Append(ooo.wait_insts, mem_load(ooo.mem, ooo.pc)))]_vars

\* a call of step() of the out-of-order core that returns Ok
OooCallOk ==
    /\ program # NoProgram /\ ooo.fault = ""
    /\ ooo'.cycle = ooo.cycle + 1 /\ ooo'.fault = "" /\ oret'.kind # "Err"

\* C22: the exit flag becomes set in a call of step() exactly when the word
\* fetched at PC is ecall; the ecall is not put in the pending queue nor
\* admitted to a station (no slot becomes busy for it), and no other word
\* sets the flag.
C22_ExitFlagIffEcall ==
    [][(OooCallOk /\ ~ooo.exit) =>
          /\ ooo'.exit <=> is_ecall(mem_load(ooo.mem, ooo.pc))
          /\ is_ecall(mem_load(ooo.mem, ooo.pc)) =>
                 /\ \A i \in 1..Len(ooo'.wait_insts) : ~is_ecall(ooo'.wait_insts[i])
                 /\ ReserveStation_done(ooo.integer_station.reserve)
                        => ReserveStation_done(ooo'.integer_station.reserve)]_vars

\* C23: once the exit flag is set, step() does not run into the cycle
\* ceiling: the work that is left drains and the call returns Exit before
\* "too many cycles" can be returned.
C23_ExitDrains ==
    [][(program # NoProgram /\ ooo.exit /\ oret.kind = "Running")
          => oret' # Err("too many cycles")]_vars

\* no slot of any bank is busy and no result timer of the three multi-cycle
\* banks is running
BanksIdle(s) ==
    /\ \A b \in {s.ld_station.reserve, s.integer_station.reserve,
                  s.fadd_station.reserve, s.fmul_station.reserve} :
           \A i \in DOMAIN b : ~busy(b[i])
    /\ \A t \in {s.ld_station.result, s.fadd_station.result, s.fmul_station.result} :
           \A i \in DOMAIN t : t[i].remain = 0

\* C24: the last call of step() returned Exit(v) only if it left the exit
\* flag set, every bank idle and the pending queue empty, with v the value of
\* register 11; when it returned Running, one of the three did not hold.
C24_ExitOnlyWhenDone ==
    LET finished == ooo.exit /\ BanksIdle(ooo) /\ ooo.wait_insts = <<>>
    IN  /\ oret.kind = "Exit" => (finished /\ oret.code = ooo.regs[11])
        /\ oret.kind = "Running" => ~finished

\* C24 witness: Exit was returned with the value an instruction wrote to x11
C24_Witness == oret = Exit(5) /\ ooo.regs[11] = 5 /\ ooo.exit

\* the operand issue records for source register r: the producing station
\* while the rename table names one, the register's value otherwise
Operand(s, r) == IF s.form[r] # 0 THEN Station(s.form[r]) ELSE Value(s.regs[r])

\* a call of step() whose issue admits the fetched instruction and nothing
\* else: the pending queue is empty before and after
AdmitsFetched ==
    /\ OooCallOk /\ ~ooo.exit /\ ~ooo'.exit
    /\ ooo.wait_insts = <<>> /\ ooo'.wait_insts = <<>>

\* C25: the slot that admitted the fetched instruction is the one the rename
\* table names for its destination afterwards, and each source register the
\* instruction uses was recorded there as Station(s) when the rename table
\* (after this call's write-back) held s # 0 for it, and as the register's
\* value when it held 0.
C25_RenameAtIssue ==
    [][AdmitsFetched =>
          \E w \in {ooo_write_back(ooo)} :
             LET inst == mem_load(ooo.mem, ooo.pc)
                 b    == station_bank(inst)
                 id   == ooo'.form[rd(inst)]
                 i    == id - bank_base(b)
             IN  /\ i \in DOMAIN ooo'[b].reserve
                 /\ busy(ooo'[b].reserve[i])
                 /\ ~busy(execute(w, FALSE)[b].reserve[i])
                 /\ ooo'[b].reserve[i].dest_reg = rd(inst)
                 /\ alu_use_reg1(inst) => ooo'[b].reserve[i].source1 = Operand(w, rs1(inst))
                 /\ alu_use_reg2(inst) => ooo'[b].reserve[i].source2 = Operand(w, rs2(inst))]_vars

\* C25 witness: an addition waits in the Integer bank for the station the
\* rename table named for its first source, its second source was read from
\* the register file, and the rename table names its slot for its destination
C25_Witness ==
    \E i \in DOMAIN ooo.integer_station.reserve :
        LET d == ooo.integer_station.reserve[i]
        IN  /\ busy(d) /\ d.source1.kind = "Station" /\ d.source2.kind = "Value"
            /\ d.source1.v \in 1..5
            /\ ooo.form[d.dest_reg] = i + 6

\* the bank a station id belongs to, by the documented ranges
IdBank(id) ==
    CASE id \in 1..5   -> "ld_station"
      [] id \in 6..8   -> "integer_station"
      [] id \in 9..10  -> "fadd_station"
      [] id \in 11..12 -> "fmul_station"

\* slot of bank b with index id - first id of the documented range
IdSlot(s, id) ==
    LET first == CASE id \in 1..5 -> 1 [] id \in 6..8 -> 6 [] id \in 9..10 -> 9 [] id \in 11..12 -> 11
    IN  s[IdBank(id)].reserve[id - first]

Posted(s, id) ==
    {s.cdb[k].data : k \in {j \in DOMAIN s.cdb :
                               s.cdb[j].station_id = id /\ s.cdb[j].tag \div 64 = 3}}

\* what a source of a waiting slot is after the execute phase that follows s
Woken(s, src) ==
    IF src.kind = "Station" /\ Posted(s, src.v) # {}
    THEN {Value(v) : v \in Posted(s, src.v)}
    ELSE {src}

\* slot i of the LoadStore or Integer bank across one call of step(): d is
\* the waiting slot before the call
C27_Slot(b, i, d) ==
    \E s1 \in Woken(ooo, d.source1), s2 \in Woken(ooo, d.source2) :
        IF s1.kind = "Value" /\ s2.kind = "Value"
        THEN \* dispatched in this call's execute phase with the captured values
             IF b = "integer_station"
             THEN alu(s1.v, s2.v, d.tag \div 4) \in Posted(ooo', i + 6)
             ELSE /\ ooo'.ld_station.reserve[i] = RSD_execute([d EXCEPT !.source1 = s1, !.source2 = s2])
                  /\ ooo'.ld_station.result[i] =
                         [result |-> mem_load(ooo.mem, wrapping_add(s1.v, s2.v)),
                          dest |-> d.dest_reg, remain |-> 2]
        ELSE \* still waiting: what was posted is captured, nothing is dispatched
             /\ ooo'[b].reserve[i] = [d EXCEPT !.source1 = s1, !.source2 = s2]
             /\ Posted(ooo', i + bank_base(b)) = {}

\* C27: in a call of step(), a slot that is busy and not yet dispatched takes
\* for each waiting source the value its station posted in the previous call;
\* it is dispatched in this call exactly when both sources are values then,
\* whether it was admitted in the previous call (the one that posted) or
\* earlier.
C27_WakeUp ==
    [][(program # NoProgram /\ ooo'.cycle = ooo.cycle + 1 /\ ooo'.fault = "" /\ ooo.fault = "") =>
          \A b \in {"ld_station", "integer_station"} :
              \A i \in DOMAIN ooo[b].reserve :
                  (busy(ooo[b].reserve[i]) /\ ~executing(ooo[b].reserve[i]))
                      => C27_Slot(b, i, ooo[b].reserve[i])]_vars

\* C27 witness: an addition waits for a LoadStore slot whose result is on
\* the bus, with its other source a value
C27_Witness ==
    \E i \in DOMAIN ooo.integer_station.reserve :
        LET d == ooo.integer_station.reserve[i]
        IN  /\ busy(d) /\ ~executing(d)
            /\ d.source1.kind = "Station" /\ d.source2.kind = "Value"
            /\ Posted(ooo, d.source1.v) # {}

\* slot d is dispatched by the next execute phase: busy, not yet dispatched,
\* both sources values
Dispatches(d) ==
    busy(d) /\ ~executing(d) /\ d.source1.kind = "Value" /\ d.source2.kind = "Value"

\* one execute phase seen from slot i of the Integer bank: dispatch, post and
\* release happen in the same phase
C28_Integer(i) ==
    LET d == ooo.integer_station.reserve[i]
    IN  IF Dispatches(d)
        THEN /\ Posted(ooo', i + 6) = {alu(d.source1.v, d.source2.v, d.tag \div 4)}
             /\ ~busy(ooo'.integer_station.reserve[i])
        ELSE Posted(ooo', i + 6) = {}

\* one execute phase seen from slot i of a bank with a timer: the timer
\* starts at 1 + latency in the dispatch phase, goes down by one per phase,
\* and the phase that takes it to 1 posts the result and frees the slot
C28_Timed(b, i, latency) ==
    LET d == ooo[b].reserve[i]
        r == ooo[b].result[i]
    IN  /\ ooo'[b].result[i].remain =
               IF Dispatches(d) THEN latency ELSE saturating_sub(r.remain, 1)
        /\ IF r.remain = 2
           THEN /\ Posted(ooo', i + bank_base(b)) = {r.result}
                /\ ~busy(ooo'[b].reserve[i])
           ELSE /\ Posted(ooo', i + bank_base(b)) = {}
                /\ busy(d) => busy(ooo'[b].reserve[i])
        /\ Dispatches(d) => executing(ooo'[b].reserve[i])

\* C28: in an execute phase an integer operation that is dispatched posts its
\* result and frees its slot; a load that is dispatched posts in the next
\* phase and an FP addition or subtraction in the phase after that; a timer
\* goes down by one per phase; a slot is freed in the phase that posts its
\* result and in no other, and posts once per dispatch.
C28_Latencies ==
    [][(extra' = extra + 1 /\ ooo'.fault = "") =>
          /\ \A i \in DOMAIN ooo.integer_station.reserve : C28_Integer(i)
          /\ \A i \in DOMAIN ooo.ld_station.reserve : C28_Timed("ld_station", i, 2)
          /\ \A i \in DOMAIN ooo.fadd_station.reserve : C28_Timed("fadd_station", i, 3)]_vars

\* C28 witness: the third phase after an FP addition, the second after a load
\* and the first after an integer addition were sent: the three results are
\* on the bus together and the three slots are free
C28_Witness ==
    /\ extra = 3
    /\ Posted(ooo, 1) = {0} /\ Posted(ooo, 6) = {3} /\ Posted(ooo, 9) = {F32Bits[4]}
    /\ BusySlots(ooo) = 0

\* C29: a call of step() whose issue runs and leaves the exit flag clear
\* advances PC by 4, whether or not the fetched instruction was admitted; the
\* call that sets the exit flag and every later call leave PC as it is.
C29_PcAdvance ==
    [][OooCallOk =>
          ooo'.pc = IF ~ooo.exit /\ ~ooo'.exit THEN wrapping_add(ooo.pc, 4) ELSE ooo.pc]_vars

\* the value the EX stage of this call uses for register r of the instruction
\* in ID/EX, old being what ID latched: the result of the instruction in
\* EX/MEM if it writes r, else that of the instruction in MEM/WB if it writes
\* r, else the latched value
Forwarded(r, old) ==
    IF reg_write(cpu.ex_mem.ir) /\ rd(cpu.ex_mem.ir) = r THEN cpu'.mem_wb.write_out
    ELSE IF reg_write(cpu.mem_wb.ir) /\ rd(cpu.mem_wb.ir) = r THEN cpu.mem_wb.write_out
    ELSE old

\* the instruction in EX/MEM is a load whose destination the instruction in
\* ID/EX reads
LoadAhead ==
    /\ is_load(cpu.ex_mem.ir) /\ reg_write(cpu.ex_mem.ir)
    /\ rd(cpu.ex_mem.ir) \in {rs1(cpu.id_ex.ir), rs2(cpu.id_ex.ir)}

\* C30: in a call of step() with all stages running, the instruction in ID/EX
\* moves to EX/MEM with its operands replaced by the write_out of the
\* instruction one place ahead if that one writes the register, else of the
\* instruction two places ahead if that one writes it, else as latched; an
\* instruction with reg_write false forwards nothing; the write_out of an
\* ALU instruction one place ahead is its alu_out.
C30_Forwarding ==
    [][(/\ program # NoProgram /\ cpu.cycle > 3
        /\ cpu'.cycle = cpu.cycle + 1 /\ cpu'.fault = "" /\ ~LoadAhead) =>
          /\ cpu'.ex_mem.ir = cpu.id_ex.ir
          /\ cpu'.ex_mem.imm_a = Forwarded(rs1(cpu.id_ex.ir), cpu.id_ex.imm_a)
          /\ cpu'.ex_mem.imm_b = Forwarded(rs2(cpu.id_ex.ir), cpu.id_ex.imm_b)
          /\ write_back(cpu.ex_mem.ir) = "Alu" => cpu'.mem_wb.write_out = cpu.ex_mem.alu_out]_vars

\* C30 witness: the instructions one and two places ahead of the one in EX/MEM
\* both wrote the register it reads first, with different results, and it
\* went through EX with the younger one
C30_Witness ==
    /\ cpu.cycle > 4 /\ cpu.fault = ""
    /\ alu_use_reg1(cpu.ex_mem.ir) /\ rs1(cpu.ex_mem.ir) # 0
    /\ reg_write(cpu.mem_wb.ir) /\ rd(cpu.mem_wb.ir) = rs1(cpu.ex_mem.ir)
    /\ write_back(cpu.mem_wb.ir) = "Alu"
    /\ cpu.ex_mem.imm_a = cpu.mem_wb.write_out
    /\ cpu.regs[rs1(cpu.ex_mem.ir)] # cpu.mem_wb.write_out
    /\ Len(commits) > 0 /\ rd(commits[Len(commits)].ir) = rs1(cpu.ex_mem.ir)
    /\ reg_write(commits[Len(commits)].ir)
    /\ commits[Len(commits)].cycle = cpu.cycle

\* where the branch or jump that has just left EX sends the fetch: PC + imm
\* for a taken branch and for jal, rs1 + imm for jalr, the next word for a
\* branch that is not taken
ResolvedTarget(x) ==
    IF inst_type(x.ir) = "B"
    THEN IF branch(x.ir, x.imm_a, x.imm_b) THEN wrapping_add(x.pc, imm(x.ir))
         ELSE wrapping_add(x.pc, 4)
    ELSE IF inst_type(x.ir) = "J" THEN wrapping_add(x.pc, imm(x.ir))
    ELSE wrapping_add(x.imm_a, imm(x.ir))

C31_Step ==
    (program # NoProgram /\ Completed /\ cpu'.fault = "") =>
        /\ (IsBranchOrJump(cpu'.id_ex.ir) \/ cpu.exit) =>
               /\ cpu'.if_id.ir = nop
               /\ cpu'.if_id.pc = cpu.if_id.pc /\ cpu'.if_id.npc = cpu.if_id.npc
               /\ cpu'.exit = cpu.exit
        /\ (cpu.cycle > 1 /\ IsBranchOrJump(cpu'.ex_mem.ir) /\ ~cpu.exit) =>
               /\ cpu'.if_id.pc = ResolvedTarget(cpu'.ex_mem)
               /\ cpu'.if_id.ir = mem_load(cpu'.mem, ResolvedTarget(cpu'.ex_mem))
               /\ cpu'.npc = wrapping_add(ResolvedTarget(cpu'.ex_mem), 4)

\* C31: a call of step() that has a branch or jump in ID/EX after decode, or
\* finds the exit flag set, leaves a nop in IF/ID and fetches nothing; the
\* call in which a branch or jump leaves EX fetches at its target if it is
\* taken and at the word after it if not; every retired instruction is at
\* the address the sequential execution is at.
C31_NoWrongPath ==
    /\ [](\A i \in 1..Len(commits) : commits[i].pc = commits[i].seqpc)
    /\ [][C31_Step]_vars

\* C31 witness: the taken bne of the loop has left EX and the word at its
\* target, not the word after it, is in IF/ID; an earlier iteration retired
C31_Witness ==
    /\ program.mem = S3
    /\ cpu.ex_mem.ir = S3[3] /\ cpu.ex_mem.cond
    /\ cpu.if_id.pc = 4 /\ cpu.if_id.ir = S3[2]
    /\ \E i \in 1..Len(commits) : commits[i].ir = S3[3]

\* a shifted by the low 5 bits of b
ShiftLow5(a, b, op) ==
    LET n == BitOp("and", b, 31)
    IN  CASE op = Sll   -> Shl(a, n)
          [] op = SrlOp -> Srl(a, n)
          [] op = SraOp -> Sra(a, n)

\* C32: the call of step() whose EX stage executes a shift does not fault,
\* whatever the second operand is, and leaves in EX/MEM the first operand
\* shifted by the low 5 bits of the second; for srai the second operand is
\* the immediate 0x400 | shamt.
C32_ShiftLowBits ==
    [][(/\ program # NoProgram /\ cpu.cycle > 1 /\ cpu.fault = ""
        /\ cpu' # cpu /\ ret'.kind # "Err"
        /\ alu_op(cpu.id_ex.ir) \in {Sll, SrlOp, SraOp}) =>
          /\ cpu'.fault = ""
          /\ cpu'.ex_mem.ir = cpu.id_ex.ir
          /\ cpu'.ex_mem.alu_out =
                 ShiftLow5(cpu'.ex_mem.imm_a,
                           IF alu_use_reg2(cpu.id_ex.ir) THEN cpu'.ex_mem.imm_b
                           ELSE cpu'.ex_mem.imm_src,
                           alu_op(cpu.id_ex.ir))]_vars

\* the station class of a word by the instruction it encodes: funct5 (bits
\* 27-31) tells the four OP-FP operations apart, 0 fadd.s, 1 fsub.s, 2
\* fmul.s, 3 fdiv.s
StationClass(w) ==
    IF opcode(w) \in {3, 7, 35, 39} THEN "LoadStore"
    ELSE IF opcode(w) = 83
    THEN IF Field(w, 27, 5) \in {0, 1} THEN "FAdd"
         ELSE IF Field(w, 27, 5) \in {2, 3} THEN "FMul"
         ELSE "Other"
    ELSE IF is_ecall(w) THEN "None"
    ELSE IF inst_type(w) \in {"R", "I", "U", "J"} THEN "Integer"
    ELSE "Other"

\* C33: the word the out-of-order core is about to fetch, when it decodes, is
\* given its station class by station(): LoadStore for the load and store
\* opcodes, FAdd for fadd.s and fsub.s, FMul for fmul.s and fdiv.s, None for
\* ecall, Integer for the other R/I/U/J words, and never a panic.
C33_StationClass ==
    (/\ program # NoProgram /\ ooo.fault = "" /\ ~ooo.exit
     /\ from_binary_ok(mem_load(ooo.mem, ooo.pc))) =>
        /\ station(mem_load(ooo.mem, ooo.pc)) # "Panic"
        /\ StationClass(mem_load(ooo.mem, ooo.pc)) # "Other" =>
               station(mem_load(ooo.mem, ooo.pc)) = StationClass(mem_load(ooo.mem, ooo.pc))

\* C34: a station id names at most one instruction in flight: the issue of
\* a call of step() admits no instruction to a slot whose id is carried by
\* a result the execute phase of that call left on the bus, so the
\* write-back of the next call cannot hand that result to the destination
\* of the newly admitted instruction.
C34_IdNamesOneInstruction ==
    [][OooCallOk =>
          \E w \in {execute(ooo_write_back(ooo), FALSE)} :
             \A id \in 1..12 :
                (~busy(IdSlot(w, id)) /\ busy(IdSlot(ooo', id))) =>
                    /\ Posted(ooo', id) = {}
                    /\ ooo_write_back(ooo').form[IdSlot(ooo', id).dest_reg]
                           = ooo'.form[IdSlot(ooo', id).dest_reg]]_vars

\* The out-of-order core driven for ever: the front end calls step() in a
\* loop, so a call that can be made is eventually made.  The programs are the
\* pairs of pool instructions and the two dependence chains.
LivePrograms ==
    {[mem |-> <<a, b>> \o t, entry |-> 0] : a \in OooPool, b \in OooPool, t \in {BranchSeq}}
    \cup {[mem |-> m, entry |-> 0] : m \in {SChase, SOrder}}

LiveLoad ==
    /\ program = NoProgram
    /\ \E p \in LivePrograms :
           /\ program' = p
           /\ ooo' = ooo_load(ooo, p)
           /\ seqst' = seq_load(p)
    /\ UNCHANGED <<assembled, cpu, ret, commits, oret, extra>>

NextOoOLive == LiveLoad \/ (\E overflow_checks \in BOOLEAN : OStep(overflow_checks))

SpecOoOLive ==
    /\ Init /\ [][NextOoOLive]_vars
    /\ WF_vars(\E overflow_checks \in BOOLEAN : OStep(overflow_checks))

\* a slot holds an instruction that waits for the result of a station
Waiting(d) == busy(d) /\ (d.source1.kind = "Station" \/ d.source2.kind = "Station")

\* the calls explored after the first terminal return are used up without a
\* panic
CallsUsedUp == extra = MaxExtra /\ ooo.fault = ""

\* the state after the write-back and execute phases of the next call
AfterExecute(s) == execute(ooo_write_back(s), FALSE)

\* C35: unless step() panics, a busy slot reaches a call whose execute
\* phase posts its result and frees it, and a rename entry that is set
\* reaches a call whose write-back returns it to 0; the execute phase frees
\* a slot only when both its operands have become values; when the calls
\* explored are used up nothing is left in flight.  No program of the model
\* gets past the issue assertions with a floating-point destination, so the
\* slots 9..12 and the rename entries 32..63 stay unused.
C35_Progress ==
    /\ \A id \in 1..8 :
           busy(IdSlot(ooo, id))
               ~> ((busy(IdSlot(ooo, id)) /\ ~busy(IdSlot(AfterExecute(ooo), id)))
                   \/ ooo.fault # "")
    /\ \A r \in 0..31 :
           (ooo.form[r] # 0) ~> (ooo_write_back(ooo).form[r] = 0 \/ ooo.fault # "")
    /\ [](/\ \A id \in 9..12 : ~busy(IdSlot(ooo, id))
          /\ \A r \in 32..63 : ooo.form[r] = 0)
    /\ [](\A id \in 1..8 :
             (busy(IdSlot(ooo, id)) /\ ~busy(IdSlot(AfterExecute(ooo), id))) =>
                 \A src \in {IdSlot(ooo, id).source1, IdSlot(ooo, id).source2} :
                    \A v \in Woken(ooo, src) : v.kind = "Value")
    /\ [](CallsUsedUp => (BanksIdle(ooo) /\ \A r \in 0..63 : ooo_write_back(ooo).form[r] = 0))

\* C35 witness: an addition that waited in the Integer bank for a load has
\* posted its result and left the bank idle
C35_Witness ==
    /\ program # NoProgram /\ ooo.fault = ""
    /\ \E k \in DOMAIN program.mem :
           opcode(program.mem[k]) = 3 /\ k < Len(program.mem)
           /\ opcode(program.mem[k + 1]) = 51
           /\ rs1(program.mem[k + 1]) = rd(program.mem[k]) /\ rd(program.mem[k]) # 0
    /\ \E id \in 6..8 : Posted(ooo, id) # {}
    /\ BanksIdle(ooo) /\ ooo.cycle >= 4

\* C36: when step() of the out-of-order core has returned Exit, no bus entry
\* is non-empty and every rename entry is 0, so the exit code and the
\* register file hold the result of every instruction issued before.
C36_ExitAfterWriteBack ==
    (program # NoProgram /\ oret.kind = "Exit") =>
        /\ \A k \in DOMAIN ooo.cdb : CdbData_is_empty(ooo.cdb[k])
        /\ \A r \in 0..63 : ooo.form[r] = 0
        /\ oret.code = ooo_write_back(ooo).regs[11]

\* every word of the loaded program before its last is a store
OnlyStores ==
    /\ program # NoProgram
    /\ \A k \in 1..(Len(program.mem) - 1) : opcode(program.mem[k]) = 35

\* C37: the call of step() that admits a fetched store leaves the rename
\* table as its write-back left it and gives the slot the store operation
\* tag 1; while a program of stores runs, no register changes.
C37_StoreFrame ==
    /\ [][(AdmitsFetched /\ opcode(mem_load(ooo.mem, ooo.pc)) = 35) =>
             /\ ooo'.form = ooo_write_back(ooo).form
             /\ \A i \in DOMAIN ooo'.ld_station.reserve :
                    (busy(ooo'.ld_station.reserve[i])
                     /\ ~busy(AfterExecute(ooo).ld_station.reserve[i]))
                        => ooo'.ld_station.reserve[i].tag \div 4 = 1]_vars
    /\ [][(OnlyStores /\ OooCallOk) => ooo'.regs = ooo.regs]_vars

\* the words a load of the loaded image can return
ImageWords == {mem_load(load_mem(program.mem), 4 * k) : k \in 0..Len(program.mem)}

\* C38: after load(program) the memory of the out-of-order core is the
\* loaded image in every state, no call of step() changes it, and a result
\* the LoadStore bank holds is a word of that image.
C38_MemoryReadOnly ==
    /\ [](program # NoProgram =>
             /\ ooo.mem = load_mem(program.mem)
             /\ \A i \in DOMAIN ooo.ld_station.result :
                    ooo.ld_station.result[i].remain > 0
                        => ooo.ld_station.result[i].result \in ImageWords)
    /\ [][program # NoProgram => ooo'.mem = ooo.mem]_vars

\* C38 witness: a load has retired, x1 holds the first word of the image
C38_Witness ==
    /\ program # NoProgram /\ ooo.fault = "" /\ ooo.cycle >= 4
    /\ program.mem[1] = asm_RgImmRs1("lw", 1, 0, 0)
    /\ ooo.regs[1] = program.mem[1]
    /\ ooo.mem = load_mem(program.mem)

\* the call of step() that is about to run finds the load-use test of
\* id_cycle true
StallCall == cpu.cycle > 0 /\ cpu.fault = "" /\ data_hazard_cond(cpu) /\ Completed

\* the last call of step() stalled on a load: the stall flag is set and
\* ID/EX holds the nop (a decoded branch or jump leaves itself in ID/EX)
DataStalled == cpu.cycle > 0 /\ cpu.fault = "" /\ cpu.stall /\ cpu.id_ex.ir = nop

\* C39: a call of step() whose decode stalls on a load leaves IF/ID and npc
\* unchanged, fetches nothing and puts a nop in ID/EX; the call after it
\* latches the instruction held in IF/ID into ID/EX; this holds whatever the
\* held instruction is (an ecall too) and whatever the load's rd (0 too).
C39_StallFrame ==
    /\ [][StallCall =>
             /\ cpu'.if_id = cpu.if_id
             /\ cpu'.npc = cpu.npc
             /\ cpu'.id_ex.ir = nop
             /\ cpu'.stall]_vars
    /\ [][(DataStalled /\ Completed) =>
             /\ cpu'.id_ex.ir = cpu.if_id.ir
             /\ cpu'.id_ex.pc = cpu.if_id.pc]_vars

\* C40: the call of the in-order step() that returns "unknown ecall" has an
\* ecall in MEM/WB with x10 # 17, runs write-back only (MEM/WB, EX/MEM,
\* IF/ID, npc, memory, the stall flag and the hazard counters are as before,
\* ID/EX keeps its instruction) and leaves the cycle counter as it was; every
\* call after it returns the same error and changes nothing.
C40_UnknownEcallSticks ==
    /\ [][(program # NoProgram /\ ret' = Err("unknown ecall")) =>
             /\ cpu.cycle > 3 /\ is_ecall(cpu.mem_wb.ir) /\ cpu'.regs[10] # 17
             /\ cpu' = wb_cycle(cpu).st
             /\ cpu'.cycle = cpu.cycle
             /\ cpu'.mem_wb = cpu.mem_wb /\ cpu'.ex_mem = cpu.ex_mem
             /\ cpu'.if_id = cpu.if_id /\ cpu'.npc = cpu.npc
             /\ cpu'.id_ex.ir = cpu.id_ex.ir
             /\ cpu'.mem = cpu.mem /\ cpu'.exit = cpu.exit]_vars
    /\ [][(program # NoProgram /\ ret = Err("unknown ecall")) =>
             (ret' = ret /\ cpu' = cpu)]_vars

\* C40 witness: step() was called twice more after the error
C40_Witness ==
    /\ program.mem = SBadEcall /\ ret = Err("unknown ecall")
    /\ extra = 2 /\ cpu.cycle = 5 /\ is_ecall(cpu.mem_wb.ir)

\* number of non-empty entries on the bus
CdbOccupancy(s) == Cardinality({k \in DOMAIN s.cdb : ~CdbData_is_empty(s.cdb[k])})

\* an entry answers some query of get_station or get_reg: the only queries
\* that can match it are the ones for its own station and its own register
CdbVisible(d) ==
    \/ CdbData_get_station(d, d.station_id)
    \/ CdbData_get_reg(d, d.tag % 64)

\* the bus as each bank of CpuState::execute leaves it, before Cdb::exec
ExecutePhases(s, overflow_checks) ==
    Bind(LDStation_execute(ooo_write_back(s)), LAMBDA s1 :
    Bind(IntegerStation_execute(s1, overflow_checks), LAMBDA s2 :
    Bind(FaddStation_execute(s2), LAMBDA s3 :
    Bind(FmulStation_execute(s3), LAMBDA s4 :
      <<s1.cdb, s2.cdb, s3.cdb, s4.cdb>>))))

\* one call of step() that does not panic, seen from entry k of the bus
C15_Entry(k, ph) ==
        IF ~CdbData_is_empty(ooo.cdb[k])
        THEN \* posted by the previous call: the write-back and every bank of
             \* this call see it, and the tick that ends the call empties it
             /\ CdbVisible(ooo.cdb[k])
             /\ \A j \in 1..4 : ph[j][k] = ooo.cdb[k]
             /\ CdbData_is_empty(ooo'.cdb[k])
        ELSE \* posted by this call, if at all: no bank of this call sees it,
             \* and the tick that ends the call makes it visible
             /\ \A j \in 1..4 : ~CdbVisible(ph[j][k])
             /\ \A j \in 1..3 : ~CdbData_is_empty(ph[j][k]) => ph[j + 1][k] = ph[j][k]
             /\ ~CdbData_is_empty(ph[4][k]) =>
                    /\ CdbVisible(ooo'.cdb[k])
                    /\ ooo'.cdb[k].station_id = ph[4][k].station_id
                    /\ ooo'.cdb[k].data = ph[4][k].data
             /\ CdbData_is_empty(ph[4][k]) => CdbData_is_empty(ooo'.cdb[k])

\* C15: an entry of the bus is invisible to every bank of the execute phase
\* that posts it, is returned by get_station/get_reg to the write-back and to
\* the execute phase of the next call of step() and to no other, and is empty
\* after its second tick.
C15_VisibleOnce ==
    [][(program # NoProgram /\ ooo'.cycle = ooo.cycle + 1 /\ ooo'.fault = "") =>
          \* a call that does not panic runs the same with and without
          \* overflow checks
          \E ph \in {ExecutePhases(ooo, FALSE)} :
              /\ ooo'.cdb = Cdb_exec(ph[4])
              /\ \A k \in DOMAIN ooo.cdb : C15_Entry(k, ph)]_vars

\* a load and an integer operation have both posted in the last call, and an
\* entry posted by the call before it has been emptied
C15_Witness ==
    /\ ooo.fault = ""
    /\ \E k \in DOMAIN ooo.cdb : CdbVisible(ooo.cdb[k]) /\ ooo.cdb[k].station_id \in 1..5
    /\ \E k \in DOMAIN ooo.cdb : CdbVisible(ooo.cdb[k]) /\ ooo.cdb[k].station_id \in 6..8
    /\ CdbOccupancy(ooo) >= 3

\* C14: Cdb::send always finds an empty entry: no call of step() of the
\* out-of-order core ends in the fault "CDB buffer is full!".
C14_CdbNeverFull == ooo.fault # "CDB buffer is full!"

=============================================================================
